---- MODULE Spec2Model ----
(***************************************************************************)
(* Model of the model-catalog resolution service of interview-assistant:   *)
(* electron/ModelFetchService.ts (fetchModels, the models.dev snapshot,    *)
(* enrichment, the result cache) and the static tables of                  *)
(* shared/aiModels.ts, the client factory of                               *)
(* electron/ProviderClientFactory.ts and the model list of the settings    *)
(* dialog, src/components/Settings/SettingsDialog.tsx.                     *)
(*                                                                         *)
(* Conventions.                                                            *)
(*  - A JavaScript string whose characters matter (ids, names, API keys,   *)
(*    cache keys) is a sequence of one-character strings, so that          *)
(*    includes/startsWith/trim/charCodeAt/localeCompare are computed.       *)
(*    Enum-like strings (provider tags, sources, messages) are TLA+        *)
(*    strings.                                                             *)
(*  - An optional value (a field that may be undefined/null) is a set with *)
(*    at most one element: None is undefined, Some(v) is the value v.      *)
(*  - Time is in milliseconds, as Date.now().                              *)
(***************************************************************************)
EXTENDS Integers, Sequences, FiniteSets, TLC

VARIABLES cache, written, modelsDevCache, stampedBy, now, calls, started, ticks,
          pure, dialog

vars == <<cache, written, modelsDevCache, stampedBy, now, calls, started, ticks, pure, dialog>>

-----------------------------------------------------------------------------
(* Optional values and JavaScript truthiness *)

None == {}

Some(v) == {v}

IsSome(o) == o # {}

Get(o) == CHOOSE v \in o : TRUE

\* truthiness of an optional boolean: only the value true is truthy
TruthyBool(o) == o = {TRUE}

\* truthiness of an optional number: undefined and 0 are falsy
TruthyNum(o) == o # {} /\ o # {0}

\* a || b on optional booleans
OrBool(a, b) == IF TruthyBool(a) THEN a ELSE b

\* a || b on optional numbers
OrNum(a, b) == IF TruthyNum(a) THEN a ELSE b

\* a || b where a is an optional object: every object is truthy
OrObj(a, b) == IF IsSome(a) THEN a ELSE b

-----------------------------------------------------------------------------
(* JavaScript string functions on sequences of characters *)

\* String.prototype.includes
Includes(s, sub) ==
  \E i \in 1..(Len(s) - Len(sub) + 1) : SubSeq(s, i, i + Len(sub) - 1) = sub

\* String.prototype.startsWith
StartsWith(s, p) == Len(p) <= Len(s) /\ SubSeq(s, 1, Len(p)) = p

WhiteSpace == {" "}

\* s.trim().length === 0
TrimIsEmpty(s) == \A i \in 1..Len(s) : s[i] \in WhiteSpace

LowerLetters ==
  <<"a","b","c","d","e","f","g","h","i","j","k","l","m",
    "n","o","p","q","r","s","t","u","v","w","x","y","z">>

UpperLetters ==
  <<"A","B","C","D","E","F","G","H","I","J","K","L","M",
    "N","O","P","Q","R","S","T","U","V","W","X","Y","Z">>

IsUpper(c) == \E i \in 1..26 : UpperLetters[i] = c

\* the characters strings are made of
Chars ==
  {" ", "-", ":", ".", "/"} \cup {"0","1","2","3","4","5","6","7","8","9"}
    \cup {LowerLetters[i] : i \in 1..26} \cup {UpperLetters[i] : i \in 1..26}

\* toLowerCase of one character
LowerChar ==
  [c \in Chars |->
    IF IsUpper(c) THEN LowerLetters[CHOOSE i \in 1..26 : UpperLetters[i] = c] ELSE c]

\* String.prototype.toLowerCase
ToLowerCase(s) == [i \in 1..Len(s) |-> LowerChar[s[i]]]

\* Primary collation order of the characters used (root locale: space and
\* punctuation, then digits, then letters; case is a tertiary difference).
PrimaryOrder ==
  <<" ", "-", ":", ".", "/",
    "0","1","2","3","4","5","6","7","8","9">> \o LowerLetters

PrimaryWeight ==
  [c \in Chars |-> CHOOSE i \in 1..Len(PrimaryOrder) : PrimaryOrder[i] = LowerChar[c]]

TertiaryWeight == [c \in Chars |-> IF IsUpper(c) THEN 1 ELSE 0]

RECURSIVE LexCompare(_, _)
\* lexicographic comparison of two sequences of numbers: -1, 0 or 1
LexCompare(a, b) ==
  IF a = <<>> /\ b = <<>> THEN 0
  ELSE IF a = <<>> THEN -1
  ELSE IF b = <<>> THEN 1
  ELSE IF Head(a) < Head(b) THEN -1
  ELSE IF Head(a) > Head(b) THEN 1
  ELSE LexCompare(Tail(a), Tail(b))

\* String.prototype.localeCompare: primary weights first, case breaks ties
LocaleCompare(a, b) ==
  LET p == LexCompare([i \in 1..Len(a) |-> PrimaryWeight[a[i]]],
                      [i \in 1..Len(b) |-> PrimaryWeight[b[i]]])
  IN  IF p # 0 THEN p
      ELSE LexCompare([i \in 1..Len(a) |-> TertiaryWeight[a[i]]],
                      [i \in 1..Len(b) |-> TertiaryWeight[b[i]]])

\* Array.prototype.sort with comparator (x, y) => x[key].localeCompare(y[key]),
\* which is stable: x is placed after every element that does not sort after it.
RECURSIVE SortByField(_, _)
SortByField(s, key) ==
  IF s = <<>> THEN <<>>
  ELSE LET r == SortByField(SubSeq(s, 1, Len(s) - 1), key)
           x == s[Len(s)]
           k == Cardinality({i \in 1..Len(r) : LocaleCompare(r[i][key], x[key]) <= 0})
       IN  SubSeq(r, 1, k) \o <<x>> \o SubSeq(r, k + 1, Len(r))

Ids(models) == {models[i].id : i \in 1..Len(models)}

-----------------------------------------------------------------------------
(* shared/aiModels.ts *)

APIProvider == {"openai", "gemini", "anthropic", "azure-openai", "openrouter"}

\* the provider tag as the characters interpolated into the cache key
ProviderString(p) ==
  CASE p = "openai" -> <<"o","p","e","n","a","i">>
    [] p = "gemini" -> <<"g","e","m","i","n","i">>
    [] p = "anthropic" -> <<"a","n","t","h","r","o","p","i","c">>
    [] p = "azure-openai" -> <<"a","z","u","r","e","-","o","p","e","n","a","i">>
    [] p = "openrouter" -> <<"o","p","e","n","r","o","u","t","e","r">>

ALLOWED_MODELS ==
  "openai" :> << <<"g","p","t","-","4","o">>, <<"g","p","t","-","4","o","-","m","i","n","i">> >>
  @@ "gemini" :> << <<"g","e","m","i","n","i","-","3","-","p","r","o","-","p","r","e","v","i","e","w">>, <<"g","e","m","i","n","i","-","3","-","f","l","a","s","h","-","p","r","e","v","i","e","w">>,
                    <<"g","e","m","i","n","i","-","3","-","p","r","o","-","i","m","a","g","e","-","p","r","e","v","i","e","w">>, <<"g","e","m","i","n","i","-","1",".","5","-","p","r","o">>,
                    <<"g","e","m","i","n","i","-","1",".","5","-","f","l","a","s","h">>, <<"g","e","m","i","n","i","-","2",".","0","-","f","l","a","s","h","-","e","x","p">> >>
  @@ "anthropic" :> << <<"c","l","a","u","d","e","-","3","-","7","-","s","o","n","n","e","t","-","2","0","2","5","0","2","1","9">>, <<"c","l","a","u","d","e","-","3","-","5","-","s","o","n","n","e","t","-","2","0","2","4","1","0","2","2">>,
                       <<"c","l","a","u","d","e","-","3","-","o","p","u","s","-","2","0","2","4","0","2","2","9">> >>
  @@ "azure-openai" :> << <<"g","p","t","-","4","o">>, <<"g","p","t","-","4","o","-","m","i","n","i">>, <<"g","p","t","-","4">>, <<"g","p","t","-","3","5","-","t","u","r","b","o">> >>
  @@ "openrouter" :> << <<"o","p","e","n","a","i","/","g","p","t","-","4","o">>, <<"o","p","e","n","a","i","/","g","p","t","-","4","o","-","m","i","n","i">>,
                        <<"a","n","t","h","r","o","p","i","c","/","c","l","a","u","d","e","-","3",".","5","-","s","o","n","n","e","t">>, <<"a","n","t","h","r","o","p","i","c","/","c","l","a","u","d","e","-","3","-","7","-","s","o","n","n","e","t">>,
                        <<"g","o","o","g","l","e","/","g","e","m","i","n","i","-","p","r","o","-","1",".","5">>, <<"g","o","o","g","l","e","/","g","e","m","i","n","i","-","f","l","a","s","h","-","1",".","5">> >>

\* a FetchedModel; absent optional fields are None
FetchedModel(id, name, provider, pricing, contextLength, capabilities) ==
  [id |-> id, name |-> name, provider |-> provider, pricing |-> pricing,
   contextLength |-> contextLength, capabilities |-> capabilities]

\* the capabilities object of a FetchedModel
Capabilities(chat, vision, audio, embedding) ==
  [chat |-> chat, vision |-> vision, audio |-> audio, embedding |-> embedding]

-----------------------------------------------------------------------------
(* ModelFetchService: constants and the cache key *)

CACHE_TTL == 5 * 60 * 1000

MODELS_DEV_CACHE_TTL == 60 * 60 * 1000

PROVIDER_TO_MODELS_DEV ==
  "openai" :> "openai" @@ "gemini" :> "google" @@ "anthropic" :> "anthropic"
  @@ "azure-openai" :> "azure" @@ "openrouter" :> ""

Digits36 ==
  <<"0","1","2","3","4","5","6","7","8","9">> \o LowerLetters

\* String.prototype.charCodeAt for the characters API keys are drawn from
CharCodeAt ==
  [c \in Chars |->
    IF c = " " THEN 32
    ELSE IF c = "-" THEN 45
    ELSE IF c = "." THEN 46
    ELSE IF c = "/" THEN 47
    ELSE IF c = ":" THEN 58
    ELSE IF IsUpper(c) THEN 64 + (CHOOSE i \in 1..26 : UpperLetters[i] = c)
    ELSE IF \E i \in 1..26 : LowerLetters[i] = c
         THEN 96 + (CHOOSE i \in 1..26 : LowerLetters[i] = c)
    ELSE 48 + (CHOOSE d \in 0..9 : Digits36[d + 1] = c)]

\* One round of hashKey's loop on a 32-bit value held as two 16-bit halves
\* <<hi, lo>>: ((hash << 5) - hash) + char, then hash |= 0, which is
\* hash * 31 + char modulo 2^32.
HashStep(h, code) ==
  LET lo == h[2] * 31 + code
      hi == h[1] * 31 + (lo \div 65536)
  IN  <<hi % 65536, lo % 65536>>

RECURSIVE HashLoop(_, _)
HashLoop(h, key) ==
  IF key = <<>> THEN h ELSE HashLoop(HashStep(h, CharCodeAt[Head(key)]), Tail(key))

RECURSIVE ToDigits36(_, _)
\* the base-36 digits of the magnitude mh * 65536 + ml (empty for zero)
ToDigits36(mh, ml) ==
  IF mh = 0 /\ ml = 0 THEN <<>>
  ELSE LET t == (mh % 36) * 65536 + ml
       IN  ToDigits36(mh \div 36, t \div 36) \o <<Digits36[(t % 36) + 1]>>

\* Number.prototype.toString(36) of the signed 32-bit value with halves h
ToString36(h) ==
  IF h = <<0, 0>> THEN <<"0">>
  ELSE IF h[1] < 32768 THEN ToDigits36(h[1], h[2])
  ELSE LET ml == (65536 - h[2]) % 65536
           mh == 65535 - h[1] + (IF h[2] = 0 THEN 1 ELSE 0)
       IN  <<"-">> \o ToDigits36(mh, ml)

hashKey(key) == ToString36(HashLoop(<<0, 0>>, key))

\* `${provider}:${this.hashKey(apiKey)}`
CacheKey(provider, apiKey) == ProviderString(provider) \o <<":">> \o hashKey(apiKey)

-----------------------------------------------------------------------------
(* models.dev catalog: lookup, filter, enrichment *)

\* m.modalities?.input?.includes(x): undefined when modalities or input is absent
ModalityIncludes(m, x) ==
  IF m.modalities = None THEN None
  ELSE IF Get(m.modalities).input = None THEN None
  ELSE Some(x \in Get(Get(m.modalities).input))

\* m.limit?.context
LimitContext(m) == IF m.limit = None THEN None ELSE Some(Get(m.limit).context)

\* m.limit?.output
LimitOutput(m) == IF m.limit = None THEN None ELSE Some(Get(m.limit).output)

\* the pricing object built from a catalog entry's cost
PricingOf(m) ==
  [input |-> m.cost.input, output |-> m.cost.output,
   cacheRead |-> m.cost.cache_read, cacheWrite |-> m.cost.cache_write]

modelsDevToFetchedModel(m, provider) ==
  FetchedModel(m.id,
               IF m.name # <<>> THEN m.name ELSE m.id,
               provider,
               Some(PricingOf(m)),
               LimitContext(m),
               Some(Capabilities(Some(TRUE),
                                 ModalityIncludes(m, "image"),
                                 ModalityIncludes(m, "audio"),
                                 Some(Includes(m.id, <<"e","m","b","e","d","d","i","n","g">>)))))

\* the filter of getModelsFromModelsDev
CatalogKeep(m) ==
  /\ m.status # Some("deprecated")
  /\ ~Includes(m.id, <<"e","m","b","e","d","d","i","n","g">>)
  /\ ~Includes(m.id, <<"t","t","s">>)
  /\ ~(LimitOutput(m) = Some(0) /\ m.cost.output = 0)

\* data[modelsDevId]: whether the snapshot has the provider's namespace
HasNamespace(data, provider) ==
  /\ data # None
  /\ PROVIDER_TO_MODELS_DEV[provider] # ""
  /\ PROVIDER_TO_MODELS_DEV[provider] \in DOMAIN Get(data)

\* Object.values(data[modelsDevId].models || {})
NamespaceModels(data, provider) == Get(data)[PROVIDER_TO_MODELS_DEV[provider]]

\* a catalog lookup that forgets its filter
getModelsFromModelsDev_Unfiltered(data, provider) ==
  IF ~HasNamespace(data, provider) THEN <<>>
  ELSE LET all == NamespaceModels(data, provider)
       IN  SortByField([i \in 1..Len(all) |-> modelsDevToFetchedModel(all[i], provider)],
                       "name")

getModelsFromModelsDev(data, provider) ==
  IF ~HasNamespace(data, provider) THEN <<>>
  ELSE LET kept == SelectSeq(NamespaceModels(data, provider), CatalogKeep)
       IN  SortByField([i \in 1..Len(kept) |-> modelsDevToFetchedModel(kept[i], provider)],
                       "name")

\* {...model.capabilities}: the fields of an absent object are all absent
SpreadCapabilities(model) ==
  IF model.capabilities = None THEN Capabilities(None, None, None, None)
  ELSE Get(model.capabilities)

\* an enrichment that tests the price instead of the pricing object: a
\* pricing of zero counts as missing and is taken from the catalog
EnrichOne_ZeroIsMissing(model, catalogEntry) ==
  LET caps == SpreadCapabilities(model)
      priced == model.pricing # None /\ Get(model.pricing).input + Get(model.pricing).output > 0
  IN  [model EXCEPT
        !.pricing = IF priced THEN model.pricing ELSE Some(PricingOf(catalogEntry)),
        !.contextLength = OrNum(model.contextLength, LimitContext(catalogEntry)),
        !.capabilities =
            Some([caps EXCEPT
                   !.vision = OrBool(caps.vision, ModalityIncludes(catalogEntry, "image")),
                   !.audio = OrBool(caps.audio, ModalityIncludes(catalogEntry, "audio"))])]

\* an enrichment in which a flag the catalog defines replaces the model's
EnrichOne_CatalogFlagWins(model, catalogEntry) ==
  LET caps == SpreadCapabilities(model)
      image == ModalityIncludes(catalogEntry, "image")
      sound == ModalityIncludes(catalogEntry, "audio")
  IN  [model EXCEPT
        !.pricing = OrObj(model.pricing, Some(PricingOf(catalogEntry))),
        !.contextLength = OrNum(model.contextLength, LimitContext(catalogEntry)),
        !.capabilities =
            Some([caps EXCEPT
                   !.vision = IF image # None THEN image ELSE caps.vision,
                   !.audio = IF sound # None THEN sound ELSE caps.audio])]

\* step 1 of enrichWithModelsDev for one model with its catalog entry
EnrichOne(model, catalogEntry) ==
  LET caps == SpreadCapabilities(model)
  IN  [model EXCEPT
        !.pricing = OrObj(model.pricing, Some(PricingOf(catalogEntry))),
        !.contextLength = OrNum(model.contextLength, LimitContext(catalogEntry)),
        !.capabilities =
            Some([caps EXCEPT
                   !.vision = OrBool(caps.vision, ModalityIncludes(catalogEntry, "image")),
                   !.audio = OrBool(caps.audio, ModalityIncludes(catalogEntry, "audio"))])]

\* an enrichment that puts the catalog-only models first
enrichWithModelsDev_CatalogFirst(data, models, provider) ==
  IF ~HasNamespace(data, provider) THEN models
  ELSE LET catalog == NamespaceModels(data, provider)
           apiModelIds == Ids(models)
           EnrichModel(model) ==
             IF \E i \in 1..Len(catalog) : catalog[i].id = model.id
             THEN EnrichOne(model,
                            catalog[CHOOSE i \in 1..Len(catalog) : catalog[i].id = model.id])
             ELSE model
           NotInApi(m) == m.id \notin apiModelIds
       IN  SelectSeq(getModelsFromModelsDev(data, provider), NotInApi)
             \o [i \in 1..Len(models) |-> EnrichModel(models[i])]

\* an enrichment that appends every eligible catalog model, present or not
enrichWithModelsDev_AppendAll(data, models, provider) ==
  IF ~HasNamespace(data, provider) THEN models
  ELSE LET catalog == NamespaceModels(data, provider)
           EnrichModel(model) ==
             IF \E i \in 1..Len(catalog) : catalog[i].id = model.id
             THEN EnrichOne(model,
                            catalog[CHOOSE i \in 1..Len(catalog) : catalog[i].id = model.id])
             ELSE model
       IN  [i \in 1..Len(models) |-> EnrichModel(models[i])]
             \o getModelsFromModelsDev(data, provider)

enrichWithModelsDev(data, models, provider) ==
  IF ~HasNamespace(data, provider) THEN models
  ELSE LET catalog == NamespaceModels(data, provider)
           apiModelIds == Ids(models)
           EnrichModel(model) ==
             IF \E i \in 1..Len(catalog) : catalog[i].id = model.id
             THEN EnrichOne(model,
                            catalog[CHOOSE i \in 1..Len(catalog) : catalog[i].id = model.id])
             ELSE model
           NotInApi(m) == m.id \notin apiModelIds
       IN  [i \in 1..Len(models) |-> EnrichModel(models[i])]
             \o SelectSeq(getModelsFromModelsDev(data, provider), NotInApi)

getStaticFallbackModels(provider) ==
  LET allowed == ALLOWED_MODELS[provider]
  IN  [i \in 1..Len(allowed) |->
        FetchedModel(allowed[i], allowed[i], provider, None, None, None)]

-----------------------------------------------------------------------------
(* Provider-specific fetchers.  An HTTP exchange is a record                *)
(* [ok, message, data]: ok = FALSE is a rejected request (transport error,  *)
(* status outside 2xx, timeout) with the error's message; otherwise data is *)
(* the list in the response body.  A fetcher yields [ok, message, models]:  *)
(* ok = FALSE is a thrown Error with that message.                          *)

Response(data) == [ok |-> TRUE, message |-> "", data |-> data]

Rejected(message) == [ok |-> FALSE, message |-> message, data |-> <<>>]

Returns(models) == [ok |-> TRUE, message |-> "", models |-> models]

Throws(message) == [ok |-> FALSE, message |-> message, models |-> <<>>]

chatPrefixes ==
  { <<"g","p","t","-","4">>, <<"g","p","t","-","3",".","5">>, <<"g","p","t","-","5">>, <<"o","1">>, <<"o","3">>, <<"o","4">>, <<"c","h","a","t","g","p","t","-">> }

excludePrefixes ==
  { <<"t","e","x","t","-","e","m","b","e","d","d","i","n","g","-">>, <<"w","h","i","s","p","e","r","-">>, <<"t","t","s","-">>, <<"d","a","l","l","-","e","-">>,
    <<"o","m","n","i","-","m","o","d","e","r","a","t","i","o","n","-">>, <<"t","e","x","t","-","m","o","d","e","r","a","t","i","o","n","-">> }

\* m.id.includes("4o") || m.id.includes("gpt-4") || m.id.includes("gpt-5")
VisionById(id) ==
  Includes(id, <<"4","o">>) \/ Includes(id, <<"g","p","t","-","4">>) \/ Includes(id, <<"g","p","t","-","5">>)

fetchOpenAIModels(resp) ==
  IF ~resp.ok THEN Throws(resp.message)
  ELSE LET Keep(m) ==
             LET id == ToLowerCase(m.id)
             IN  /\ ~\E p \in excludePrefixes : StartsWith(id, p)
                 /\ \E p \in chatPrefixes : StartsWith(id, p)
           F(m) == FetchedModel(m.id, m.id, "openai", None, None,
                     Some(Capabilities(Some(TRUE), Some(VisionById(m.id)), None, None)))
           kept == SelectSeq(resp.data, Keep)
       IN  Returns(SortByField([i \in 1..Len(kept) |-> F(kept[i])], "id"))

\* String.prototype.replace(pattern, "") with a string pattern: the first
\* occurrence is removed
RemoveFirst(s, pat) ==
  IF ~Includes(s, pat) THEN s
  ELSE LET i == CHOOSE j \in 1..(Len(s) - Len(pat) + 1) :
                  /\ SubSeq(s, j, j + Len(pat) - 1) = pat
                  /\ \A k \in 1..(j - 1) : SubSeq(s, k, k + Len(pat) - 1) # pat
       IN  SubSeq(s, 1, i - 1) \o SubSeq(s, i + Len(pat), Len(s))

fetchGeminiModels(resp) ==
  IF ~resp.ok THEN Throws(resp.message)
  ELSE LET Keep(m) ==
             /\ m.supportedGenerationMethods # None
             /\ "generateContent" \in Get(m.supportedGenerationMethods)
             /\ Includes(m.name, <<"g","e","m","i","n","i">>)
           F(m) ==
             LET id == RemoveFirst(m.name, <<"m","o","d","e","l","s","/">>)
             IN  FetchedModel(id,
                   IF m.displayName # None /\ Get(m.displayName) # <<>>
                   THEN Get(m.displayName) ELSE id,
                   "gemini", None, m.inputTokenLimit,
                   Some(Capabilities(Some(TRUE),
                          Some(Includes(m.name, <<"p","r","o">>) \/ Includes(m.name, <<"f","l","a","s","h">>)),
                          None, None)))
           kept == SelectSeq(resp.data, Keep)
       IN  Returns(SortByField([i \in 1..Len(kept) |-> F(kept[i])], "name"))

fetchAnthropicModels(resp) ==
  IF ~resp.ok THEN Throws(resp.message)
  ELSE LET F(m) ==
             FetchedModel(m.id,
               IF m.display_name # None /\ Get(m.display_name) # <<>>
               THEN Get(m.display_name) ELSE m.id,
               "anthropic", None, None,
               Some(Capabilities(Some(TRUE), None, None, None)))
       IN  Returns(SortByField([i \in 1..Len(resp.data) |-> F(resp.data[i])], "name"))

\* m.capabilities?.chat_completion is truthy
AzureChatCompletion(m) ==
  m.capabilities # None /\ Get(m.capabilities).chat_completion = Some(TRUE)

\* whether fetchAzureModels issues its request: !endpoint throws before it
AzureHasEndpoint(endpoint) == endpoint # None /\ endpoint # Some("")

\* a fetcher that returns the empty list the endpoint answered
fetchAzureModels_EmptyListReturned(endpoint, resp) ==
  IF ~AzureHasEndpoint(endpoint)
  THEN Throws("Azure OpenAI requires an endpoint URL")
  ELSE IF resp.ok
  THEN LET Keep(m) ==
             \/ AzureChatCompletion(m)
             \/ (m.capabilities # None /\ Get(m.capabilities).inference = Some(TRUE))
             \/ m.status = Some("succeeded")
           F(m) == FetchedModel(m.id, m.id, "azure-openai", None, None,
                     Some(Capabilities(Some(AzureChatCompletion(m)),
                                       Some(VisionById(m.id)), None, None)))
           kept == SelectSeq(resp.data, Keep)
       IN  Returns(SortByField([i \in 1..Len(kept) |-> F(kept[i])], "id"))
  ELSE Throws("Azure models list not available, falling back to catalog")

fetchAzureModels(endpoint, resp) ==
  IF ~AzureHasEndpoint(endpoint)
  THEN Throws("Azure OpenAI requires an endpoint URL")
  ELSE IF resp.ok /\ Len(resp.data) > 0
  THEN LET Keep(m) ==
             \/ AzureChatCompletion(m)
             \/ (m.capabilities # None /\ Get(m.capabilities).inference = Some(TRUE))
             \/ m.status = Some("succeeded")
           F(m) == FetchedModel(m.id, m.id, "azure-openai", None, None,
                     Some(Capabilities(Some(AzureChatCompletion(m)),
                                       Some(VisionById(m.id)), None, None)))
           kept == SelectSeq(resp.data, Keep)
       IN  Returns(SortByField([i \in 1..Len(kept) |-> F(kept[i])], "id"))
  ELSE Throws("Azure models list not available, falling back to catalog")

\* parseFloat(price || "0") * 1_000_000, a price string being held as the
\* number of millionths of a dollar it denotes
PerMillion(price) == IF price = None THEN 0 ELSE Get(price)

fetchOpenRouterModels(resp) ==
  IF ~resp.ok THEN Throws(resp.message)
  ELSE LET Keep(m) ==
             /\ ~Includes(m.id, <<"e","m","b","e","d","d","i","n","g">>)
             /\ ~Includes(m.id, <<"t","t","s">>)
             /\ ~Includes(m.id, <<"w","h","i","s","p","e","r">>)
             /\ ~Includes(m.id, <<"d","a","l","l","-","e">>)
           F(m) ==
             FetchedModel(m.id,
               IF m.name # None /\ Get(m.name) # <<>> THEN Get(m.name) ELSE m.id,
               "openrouter",
               Some([input |-> PerMillion(IF m.pricing = None THEN None
                                          ELSE Get(m.pricing).prompt),
                     output |-> PerMillion(IF m.pricing = None THEN None
                                           ELSE Get(m.pricing).completion),
                     cacheRead |-> None, cacheWrite |-> None]),
               OrNum(m.context_length, None),
               Some(Capabilities(Some(TRUE),
                      IF m.input_modalities = None THEN None
                      ELSE Some("image" \in Get(m.input_modalities)),
                      None, None)))
           kept == SelectSeq(resp.data, Keep)
       IN  Returns(SortByField([i \in 1..Len(kept) |-> F(kept[i])], "name"))

\* the switch of fetchModels over the provider
fetchProviderModels(provider, endpoint, resp) ==
  CASE provider = "openai" -> fetchOpenAIModels(resp)
    [] provider = "gemini" -> fetchGeminiModels(resp)
    [] provider = "anthropic" -> fetchAnthropicModels(resp)
    [] provider = "azure-openai" -> fetchAzureModels(endpoint, resp)
    [] provider = "openrouter" -> fetchOpenRouterModels(resp)

\* whether the provider fetch sends a request at all
ProviderRequestSent(provider, endpoint) ==
  provider = "azure-openai" => AzureHasEndpoint(endpoint)

-----------------------------------------------------------------------------
(* The environment: what the network may answer, what callers may pass *)

\* a models.dev entry (ModelsDevModel)
Entry(id, name, costIn, costOut, limit, modalities, status) ==
  [id |-> id, name |-> name,
   cost |-> [input |-> costIn, output |-> costOut,
             cache_read |-> None, cache_write |-> None],
   limit |-> limit, modalities |-> modalities, status |-> status]

Limit(context, output) == Some([context |-> context, output |-> output])

Modalities(input) == Some([input |-> Some(input)])

\* first body of https://models.dev/api.json
CatalogA ==
  "openai" :> << Entry(<<"w","h","i","s","p","e","r","-","1">>, <<"W","h","i","s","p","e","r">>, 600, 600, Limit(0, 1000), None, None),
                 Entry(<<"g","p","t","-","4","o">>, <<"G","P","T","-","4","o">>, 250, 1000, Limit(128000, 16384),
                       Modalities({"text", "image"}), None),
                 Entry(<<"t","t","s","-","1">>, <<"T","T","S","-","1">>, 1500, 1500, Limit(2000, 2000), None, None),
                 Entry(<<"g","p","t","-","4">>, <<"G","P","T","-","4">>, 3000, 6000, Limit(8192, 8192),
                       Modalities({"text"}), Some("deprecated")) >>
  @@ "google" :> << Entry(<<"g","e","m","i","n","i","-","1",".","5","-","p","r","o">>, <<"G","e","m","i","n","i"," ","1",".","5"," ","P","r","o">>, 125, 500,
                          Limit(2000000, 8192),
                          Modalities({"text", "image", "audio"}), None),
                    Entry(<<"g","e","m","i","n","i","-","e","m","b","e","d","d","i","n","g","-","0","0","1">>, <<"G","e","m","i","n","i"," ","E","m","b","e","d","d","i","n","g">>, 15, 0,
                          Limit(2048, 3072), Modalities({"text"}), None) >>
  @@ "azure" :> << Entry(<<"g","p","t","-","3","5","-","t","u","r","b","o">>, <<"G","P","T","-","3",".","5"," ","T","u","r","b","o">>, 0, 0, Limit(16384, 0),
                         None, None) >>

\* a later body of https://models.dev/api.json
CatalogB ==
  "openai" :> << Entry(<<"g","p","t","-","o","s","s">>, <<"g","p","t","-","o","s","s">>, 0, 0, Limit(131072, 32768), None, None),
                 Entry(<<"g","p","t","-","4","o","-","m","i","n","i">>, <<>>, 15, 60, None, Some([input |-> None]), None),
                 Entry(<<"g","p","t","-","4","o">>, <<"G","P","T","-","4","o">>, 500, 1500, Limit(128000, 16384),
                       Modalities({"text", "image", "audio"}), None) >>
  @@ "anthropic" :> << Entry(<<"c","l","a","u","d","e","-","3","-","7","-","s","o","n","n","e","t","-","2","0","2","5","0","2","1","9">>, <<"C","l","a","u","d","e"," ","S","o","n","n","e","t"," ","3",".","7">>,
                             300, 1500, Limit(200000, 64000),
                             Modalities({"text", "image"}), None),
                       Entry(<<"c","l","a","u","d","e","-","3","-","o","p","u","s","-","2","0","2","4","0","2","2","9">>, <<"C","l","a","u","d","e"," ","O","p","u","s"," ","3">>,
                             1500, 7500, Limit(200000, 4096),
                             Modalities({"text", "image"}), Some("deprecated")) >>
  @@ "azure" :> << Entry(<<"g","p","t","-","4","o">>, <<"G","P","T","-","4","o">>, 250, 1000, Limit(128000, 16384),
                         Modalities({"text", "image"}), None) >>

\* what a request to https://models.dev/api.json may produce: a 200 with a body
\* and possibly an ETag header, a 304, or a failure (transport error, timeout,
\* or a status that validateStatus rejects)
CatalogResponses ==
  { [status |-> 200, data |-> Some(CatalogA), etag |-> Some("W/a")],
    [status |-> 200, data |-> Some(CatalogB), etag |-> None],
    [status |-> 304, data |-> None, etag |-> None],
    [status |-> 500, data |-> None, etag |-> None] }

RequestFailed == "Request failed with status code 401"

\* what the provider's listing endpoint may answer
ProviderResponses(provider) ==
  CASE provider = "openai" ->
         { Response(<< [id |-> <<"g","p","t","-","4","o","-","m","i","n","i">>], [id |-> <<"g","p","t","-","4","o">>],
                       [id |-> <<"t","e","x","t","-","e","m","b","e","d","d","i","n","g","-","3","-","s","m","a","l","l">>] >>),
           Response(<< [id |-> <<"d","a","l","l","-","e","-","3">>] >>),
           Rejected(RequestFailed) }
    [] provider = "gemini" ->
         { Response(<< [name |-> <<"m","o","d","e","l","s","/","g","e","m","i","n","i","-","1",".","5","-","p","r","o">>,
                        displayName |-> Some(<<"G","e","m","i","n","i"," ","1",".","5"," ","P","r","o">>),
                        supportedGenerationMethods |-> Some({"generateContent"}),
                        inputTokenLimit |-> Some(2000000)],
                       [name |-> <<"m","o","d","e","l","s","/","e","m","b","e","d","d","i","n","g","-","0","0","1">>,
                        displayName |-> None,
                        supportedGenerationMethods |-> Some({"embedContent"}),
                        inputTokenLimit |-> Some(2048)] >>),
           Rejected(RequestFailed) }
    [] provider = "anthropic" ->
         { Response(<< [id |-> <<"c","l","a","u","d","e","-","3","-","7","-","s","o","n","n","e","t","-","2","0","2","5","0","2","1","9">>,
                        display_name |-> Some(<<"C","l","a","u","d","e"," ","S","o","n","n","e","t"," ","3",".","7">>)],
                       [id |-> <<"c","l","a","u","d","e","-","3","-","h","a","i","k","u","-","2","0","2","4","0","3","0","7">>,
                        display_name |-> None] >>),
           Response(<<>>),
           Rejected(RequestFailed) }
    [] provider = "azure-openai" ->
         { Response(<< [id |-> <<"g","p","t","-","4","o">>,
                        capabilities |-> Some([chat_completion |-> Some(TRUE),
                                               inference |-> Some(TRUE)]),
                        status |-> Some("succeeded")] >>),
           Response(<< [id |-> <<"d","a","l","l","-","e","-","3">>,
                        capabilities |-> Some([chat_completion |-> Some(FALSE),
                                               inference |-> Some(FALSE)]),
                        status |-> Some("failed")] >>),
           Response(<<>>),
           Rejected(RequestFailed) }
    [] provider = "openrouter" ->
         { Response(<< [id |-> <<"o","p","e","n","a","i","/","g","p","t","-","4","o">>,
                        name |-> Some(<<"O","p","e","n","A","I",":"," ","G","P","T","-","4","o">>),
                        pricing |-> Some([prompt |-> Some(3), completion |-> Some(10)]),
                        context_length |-> Some(128000),
                        input_modalities |-> Some({"text", "image"})],
                       [id |-> <<"m","e","t","a","/","l","l","a","m","a","-","3","-","f","r","e","e">>,
                        name |-> None,
                        pricing |-> None,
                        context_length |-> None,
                        input_modalities |-> None] >>),
           Rejected(RequestFailed) }

\* the API keys callers pass: none, blank, and a key
ApiKeys == { <<>>, <<" ">>, <<"A","a">> }

\* the endpoint option: passed for Azure only
Endpoints(provider) ==
  IF provider = "azure-openai" THEN {None, Some("https://res.openai.azure.com")}
  ELSE {None}

\* the time a request takes
Latency == 1

\* Date.now() advances by one of these amounts between invocations
TickSteps == {CACHE_TTL - 1, CACHE_TTL, MODELS_DEV_CACHE_TTL}

CallIds == {"c1", "c2"}

\* the slots used when invocations do not overlap
Slots == {"c1"}

MaxStarted == 2

MaxTicks == 1

-----------------------------------------------------------------------------
(* State.                                                                  *)
(*  cache          ModelFetchService.cache: cache key -> CacheEntry        *)
(*  modelsDevCache the shared catalog snapshot {data, timestamp, etag}     *)
(*  stampedBy      history: the status of the response that last set the   *)
(*                 snapshot's timestamp                                    *)
(*  now            Date.now()                                              *)
(*  calls          the fetchModels invocations in progress, one per slot:  *)
(*                 pc is the await the invocation is suspended at, ensure  *)
(*                 the state of the ensureModelsDevData promise it started *)
(*  written        history: for each cache key, the models and source      *)
(*                 returned by the invocation that wrote the entry, and    *)
(*                 the API key it was made with                            *)
(*                 (history fields of a slot: seq, the number of the       *)
(*                 invocation; startedAt, the time it was made; during,    *)
(*                 the invocations that were suspended then; entryAtStart, *)
(*                 the timestamp of the cache entry its key had then;      *)
(*                 returnedAt, the time it returned;                       *)
(*                 apiModels, what the provider fetcher                    *)
(*                 returned; apiResponse, what the provider's listing      *)
(*                 endpoint answered; catalogStatus, the status of the     *)
(*                 response to its catalog request; providerRequests and   *)
(*                 catalogRequests, the requests the invocation sent)      *)
(*  started, ticks how many invocations were started, how often time moved *)
(*  pure           input and outputs of the pure functions exercised alone *)
(*  dialog         the state of the SettingsDialog component               *)

ModelFetchResult(success, models, error, cachedAt, source) ==
  [success |-> success, models |-> models, error |-> error,
   cachedAt |-> cachedAt, source |-> source]

\* a cache write that labels every entry as coming from the provider API
CacheEntry_ApiSource(models, timestamp, source) ==
  [models |-> models, timestamp |-> timestamp, source |-> "api"]

CacheEntry(models, timestamp, source) ==
  [models |-> models, timestamp |-> timestamp, source |-> source]

IdleCall ==
  [pc |-> "idle", provider |-> "openai", apiKey |-> <<>>, forceRefresh |-> FALSE,
   endpoint |-> None, apiVersion |-> None, ensure |-> "none", ifNoneMatch |-> None,
   models |-> <<>>, source |-> "api", apiError |-> None, result |-> None,
   apiModels |-> None, apiResponse |-> None, seq |-> 0, startedAt |-> 0,
   during |-> {}, entryAtStart |-> None, returnedAt |-> None, catalogStatus |-> None,
   providerRequests |-> 0, catalogRequests |-> 0]

NoPure == [stage |-> "none"]

\* the settings dialog, not mounted
NoDialog == [open |-> FALSE]

\* new Map()
EmptyMap == [k \in {} |-> {}]

Init ==
  /\ cache = EmptyMap
  /\ written = EmptyMap
  /\ modelsDevCache = [data |-> None, timestamp |-> 0, etag |-> None]
  /\ stampedBy = None
  /\ now = MODELS_DEV_CACHE_TTL
  /\ calls = [c \in CallIds |-> IdleCall]
  /\ started = 0
  /\ ticks = 0
  /\ dialog = NoDialog
  /\ pure = NoPure

\* (x || null) for an optional string: an empty string is falsy
OrNull(x) == IF x = Some("") THEN None ELSE x

\* the guard of ensureModelsDevData: the snapshot is loaded and younger than its TTL
CatalogFresh ==
  /\ modelsDevCache.data # None
  /\ now - modelsDevCache.timestamp < MODELS_DEV_CACHE_TTL

\* The synchronous part of ensureModelsDevData, run when fetchModels calls it:
\* either the promise is already resolved, or the request is sent, with an
\* If-None-Match header when the snapshot has an entity tag.
StartEnsure(call) ==
  IF CatalogFresh
  THEN [call EXCEPT !.ensure = "resolved"]
  ELSE [call EXCEPT !.ensure = "pending",
                    !.ifNoneMatch = OrNull(modelsDevCache.etag),
                    !.catalogRequests = call.catalogRequests + 1]

\* a cache lookup that trusts only lists that came from the provider
CacheFresh_ApiOnly(cacheKey) ==
  /\ cacheKey \in DOMAIN cache
  /\ cache[cacheKey].source = "api"
  /\ now - cache[cacheKey].timestamp < CACHE_TTL

\* a cache lookup that never lets an entry expire
CacheFresh_NoExpiry(cacheKey) == cacheKey \in DOMAIN cache

\* the cache lookup of fetchModels: an entry for the key, younger than the TTL
CacheFresh(cacheKey) ==
  /\ cacheKey \in DOMAIN cache
  /\ now - cache[cacheKey].timestamp < CACHE_TTL

\* a cache that holds the latest entry only
CacheSet_SingleEntry(map, cacheKey, entry) ==
  [k \in {cacheKey} |-> entry]

\* this.cache.set(cacheKey, entry)
CacheSet(map, cacheKey, entry) ==
  [k \in DOMAIN map \cup {cacheKey} |-> IF k = cacheKey THEN entry ELSE map[k]]

\* The forceRefresh option callers pass.  It is read only when the key is not
\* blank, and changes the outcome only when the cache has an entry for the key;
\* elsewhere it is left unset.
ForceRefresh(provider, apiKey) ==
  IF ~TrimIsEmpty(apiKey) /\ CacheKey(provider, apiKey) \in DOMAIN cache
  THEN BOOLEAN ELSE {FALSE}

\* the slots whose invocation is between its first await and its return
Suspended == {c \in CallIds : calls[c].pc \notin {"idle", "done"}}

\* a fetchModels that looks into the cache whatever forceRefresh says
FetchModels_IgnoresForce(c, provider, apiKey, forceRefresh, endpoint, apiVersion) ==
  LET call == [IdleCall EXCEPT !.provider = provider, !.apiKey = apiKey,
                               !.forceRefresh = forceRefresh, !.endpoint = endpoint,
                               !.apiVersion = apiVersion,
                               !.seq = started + 1, !.startedAt = now,
                               !.during = {calls[d].seq : d \in Suspended},
                               !.entryAtStart =
                                   IF CacheKey(provider, apiKey) \in DOMAIN cache
                                   THEN Some(cache[CacheKey(provider, apiKey)].timestamp)
                                   ELSE None]
      cacheKey == CacheKey(provider, apiKey)
  IN  /\ calls[c].pc \in {"idle", "done"}
      /\ calls[c].ensure # "pending"
      /\ started' = started + 1
      /\ calls' = [calls EXCEPT ![c] =
           IF TrimIsEmpty(apiKey)
           THEN [StartEnsure(call) EXCEPT !.pc = "nokey"]
           ELSE IF CacheFresh(cacheKey)
           THEN [call EXCEPT
                  !.pc = "done",
                  !.returnedAt = Some(now),
                  !.result = Some(ModelFetchResult(TRUE, cache[cacheKey].models, None,
                                                   Some(cache[cacheKey].timestamp),
                                                   cache[cacheKey].source))]
           ELSE [StartEnsure(call) EXCEPT
                  !.pc = "api",
                  !.providerRequests =
                      IF ProviderRequestSent(provider, endpoint) THEN 1 ELSE 0]]
      /\ UNCHANGED <<cache, written, modelsDevCache, stampedBy, now, ticks, pure, dialog>>

\* fetchModels up to its first await.  A slot is free once its invocation has
\* returned and the catalog request it sent has been answered (the openrouter
\* path returns without awaiting it).
FetchModels(c, provider, apiKey, forceRefresh, endpoint, apiVersion) ==
  LET call == [IdleCall EXCEPT !.provider = provider, !.apiKey = apiKey,
                               !.forceRefresh = forceRefresh, !.endpoint = endpoint,
                               !.apiVersion = apiVersion,
                               !.seq = started + 1, !.startedAt = now,
                               !.during = {calls[d].seq : d \in Suspended},
                               !.entryAtStart =
                                   IF CacheKey(provider, apiKey) \in DOMAIN cache
                                   THEN Some(cache[CacheKey(provider, apiKey)].timestamp)
                                   ELSE None]
      cacheKey == CacheKey(provider, apiKey)
  IN  /\ calls[c].pc \in {"idle", "done"}
      /\ calls[c].ensure # "pending"
      /\ started' = started + 1
      /\ calls' = [calls EXCEPT ![c] =
           IF TrimIsEmpty(apiKey)
           THEN [StartEnsure(call) EXCEPT !.pc = "nokey"]
           ELSE IF ~forceRefresh /\ CacheFresh(cacheKey)
           THEN [call EXCEPT
                  !.pc = "done",
                  !.returnedAt = Some(now),
                  !.result = Some(ModelFetchResult(TRUE, cache[cacheKey].models, None,
                                                   Some(cache[cacheKey].timestamp),
                                                   cache[cacheKey].source))]
           ELSE [StartEnsure(call) EXCEPT
                  !.pc = "api",
                  !.providerRequests =
                      IF ProviderRequestSent(provider, endpoint) THEN 1 ELSE 0]]
      /\ UNCHANGED <<cache, written, modelsDevCache, stampedBy, now, ticks, pure, dialog>>

\* a 304 handler that returns without touching the snapshot
SnapshotAfter_KeepsTimestamp(resp) ==
  IF resp.status = 200
  THEN [data |-> resp.data, timestamp |-> now', etag |-> OrNull(resp.etag)]
  ELSE modelsDevCache

\* a catch block that stamps the snapshot, so that the failure is not retried
SnapshotAfter_StampsFailure(resp) ==
  IF resp.status = 200
  THEN [data |-> resp.data, timestamp |-> now', etag |-> OrNull(resp.etag)]
  ELSE [modelsDevCache EXCEPT !.timestamp = now']

\* a catch block that discards the snapshot
SnapshotAfter_DropsOnFailure(resp) ==
  IF resp.status = 304
  THEN [modelsDevCache EXCEPT !.timestamp = now']
  ELSE IF resp.status = 200
  THEN [data |-> resp.data, timestamp |-> now', etag |-> OrNull(resp.etag)]
  ELSE [data |-> None, timestamp |-> 0, etag |-> None]

\* a 200 handler that stores the ETag header as it came
SnapshotAfter_RawEtag(resp) ==
  IF resp.status = 304
  THEN [modelsDevCache EXCEPT !.timestamp = now']
  ELSE IF resp.status = 200
  THEN [data |-> resp.data, timestamp |-> now', etag |-> resp.etag]
  ELSE modelsDevCache

\* the snapshot after ensureModelsDevData has handled the response
SnapshotAfter(resp) ==
  IF resp.status = 304
  THEN [modelsDevCache EXCEPT !.timestamp = now']
  ELSE IF resp.status = 200
  THEN [data |-> resp.data, timestamp |-> now', etag |-> OrNull(resp.etag)]
  ELSE modelsDevCache

\* ensureModelsDevData after its await: the response to the catalog request
\* arrives.  A 304 answers only a request that carried If-None-Match.
CatalogResponse(c, resp) ==
  /\ calls[c].ensure = "pending"
  /\ resp.status = 304 => calls[c].ifNoneMatch # None
  /\ now' = now + Latency
  /\ modelsDevCache' = SnapshotAfter(resp)
  /\ stampedBy' = IF resp.status \in {200, 304} THEN Some(resp.status) ELSE stampedBy
  /\ calls' = [calls EXCEPT ![c].ensure = "resolved",
                            ![c].catalogStatus = Some(resp.status)]
  /\ UNCHANGED <<cache, written, started, ticks, pure, dialog>>

\* a no-key path that drops the message from its static result
NoKeyResult_NoError(provider) ==
  LET catalogModels == getModelsFromModelsDev(modelsDevCache.data, provider)
  IN  IF Len(catalogModels) > 0
      THEN ModelFetchResult(TRUE, catalogModels, None, None, "models.dev")
      ELSE ModelFetchResult(FALSE, getStaticFallbackModels(provider),
                            None, None, "static")

\* fetchModels without an API key, after `await this.ensureModelsDevData()`
NoKeyResult(provider) ==
  LET catalogModels == getModelsFromModelsDev(modelsDevCache.data, provider)
  IN  IF Len(catalogModels) > 0
      THEN ModelFetchResult(TRUE, catalogModels, None, None, "models.dev")
      ELSE ModelFetchResult(FALSE, getStaticFallbackModels(provider),
                            Some("API key is required"), None, "static")

NoKeyReturn(c) ==
  /\ calls[c].pc = "nokey"
  /\ calls[c].ensure = "resolved"
  /\ calls' = [calls EXCEPT ![c].pc = "done",
                            ![c].returnedAt = Some(now),
                            ![c].result = Some(NoKeyResult(calls[c].provider))]
  /\ UNCHANGED <<cache, written, modelsDevCache, stampedBy, now, started, ticks, pure, dialog>>

\* the tail of fetchModels: this.cache.set(...) and the returned result
ReturnedResult(models, source) == ModelFetchResult(TRUE, models, None, None, source)

\* a cache whose key also holds the endpoint option
Finish_KeyedByEndpoint(c, call, models, source, apiModels) ==
  LET cacheKey == CacheKey(call.provider, call.apiKey)
                    \o <<IF call.endpoint = None THEN "" ELSE Get(call.endpoint)>>
  IN  /\ cache' = CacheSet(cache, cacheKey, CacheEntry(models, now', source))
      /\ written' = CacheSet(written, cacheKey,
                             [models |-> models, source |-> source,
                              apiKey |-> call.apiKey, provider |-> call.provider])
      /\ calls' = [calls EXCEPT ![c] =
           [call EXCEPT !.pc = "done",
                        !.returnedAt = Some(now'),
                        !.models = models,
                        !.source = source,
                        !.apiModels = apiModels,
                        !.result = Some(ReturnedResult(models, source))]]

\* a cache write stamped with the time the invocation was made
Finish_StampsStart(c, call, models, source, apiModels) ==
  LET cacheKey == CacheKey(call.provider, call.apiKey)
  IN  /\ cache' = CacheSet(cache, cacheKey, CacheEntry(models, call.startedAt, source))
      /\ written' = CacheSet(written, cacheKey,
                             [models |-> models, source |-> source,
                              apiKey |-> call.apiKey, provider |-> call.provider])
      /\ calls' = [calls EXCEPT ![c] =
           [call EXCEPT !.pc = "done",
                        !.returnedAt = Some(now'),
                        !.models = models,
                        !.source = source,
                        !.apiModels = apiModels,
                        !.result = Some(ReturnedResult(models, source))]]

\* the tail of fetchModels, for the invocation of slot c whose record is call
Finish(c, call, models, source, apiModels) ==
  LET cacheKey == CacheKey(call.provider, call.apiKey)
  IN  /\ cache' = CacheSet(cache, cacheKey, CacheEntry(models, now', source))
      /\ written' = CacheSet(written, cacheKey,
                             [models |-> models, source |-> source,
                              apiKey |-> call.apiKey, provider |-> call.provider])
      /\ calls' = [calls EXCEPT ![c] =
           [call EXCEPT !.pc = "done",
                        !.returnedAt = Some(now'),
                        !.models = models,
                        !.source = source,
                        !.apiModels = apiModels,
                        !.result = Some(ReturnedResult(models, source))]]

\* a fetchModels that never enriches
Enriches_Never(provider) == FALSE

\* whether fetchModels enriches the models of this provider
Enriches(provider) == provider # "openrouter"

\* a fetchModels without the inner catch: the rejection of the provider fetch
\* ends the invocation without a result
ProviderSettles_Rejects(c, resp) ==
  LET sent == ProviderRequestSent(calls[c].provider, calls[c].endpoint)
      call == [calls[c] EXCEPT !.apiResponse = IF sent THEN Some(resp) ELSE None]
      got == fetchProviderModels(call.provider, call.endpoint, resp)
  IN  /\ call.pc = "api"
      /\ resp \in ProviderResponses(call.provider)
      /\ ~ProviderRequestSent(call.provider, call.endpoint) => ~resp.ok
      /\ now' = IF ProviderRequestSent(call.provider, call.endpoint)
                THEN now + Latency ELSE now
      /\ IF got.ok
         THEN IF Enriches(call.provider)
              THEN /\ calls' = [calls EXCEPT ![c] =
                        [call EXCEPT !.pc = "enrich",
                                     !.models = got.models,
                                     !.source = "api",
                                     !.apiModels = Some(got.models)]]
                   /\ UNCHANGED <<cache, written>>
              ELSE Finish(c, call, got.models, "api", Some(got.models))
         ELSE /\ calls' = [calls EXCEPT ![c] =
                   [call EXCEPT !.pc = "rejected", !.apiError = Some(got.message)]]
              /\ UNCHANGED <<cache, written>>
      /\ UNCHANGED <<modelsDevCache, stampedBy, started, ticks, pure, dialog>>

\* the provider fetch settles: `models = await this.fetchXModels(...)` or the
\* catch block up to `await modelsDevPromise`
ProviderSettles(c, resp) ==
  LET sent == ProviderRequestSent(calls[c].provider, calls[c].endpoint)
      call == [calls[c] EXCEPT !.apiResponse = IF sent THEN Some(resp) ELSE None]
      got == fetchProviderModels(call.provider, call.endpoint, resp)
  IN  /\ call.pc = "api"
      /\ resp \in ProviderResponses(call.provider)
      /\ ~ProviderRequestSent(call.provider, call.endpoint) => ~resp.ok
      /\ now' = IF ProviderRequestSent(call.provider, call.endpoint)
                THEN now + Latency ELSE now
      /\ IF got.ok
         THEN IF Enriches(call.provider)
              THEN /\ calls' = [calls EXCEPT ![c] =
                        [call EXCEPT !.pc = "enrich",
                                     !.models = got.models,
                                     !.source = "api",
                                     !.apiModels = Some(got.models)]]
                   /\ UNCHANGED <<cache, written>>
              ELSE Finish(c, call, got.models, "api", Some(got.models))
         ELSE /\ calls' = [calls EXCEPT ![c] =
                   [call EXCEPT !.pc = "fallback", !.apiError = Some(got.message)]]
              /\ UNCHANGED <<cache, written>>
      /\ UNCHANGED <<modelsDevCache, stampedBy, started, ticks, pure, dialog>>

\* a catch block that labels its result before looking at it
FallbackModels_LabelsCatalog(provider) ==
  LET catalogModels == getModelsFromModelsDev(modelsDevCache.data, provider)
  IN  IF Len(catalogModels) > 0
      THEN [models |-> catalogModels, source |-> "models.dev"]
      ELSE [models |-> getStaticFallbackModels(provider), source |-> "models.dev"]

\* a catch block that skips the catalog tier
FallbackModels_StaticOnly(provider) ==
  [models |-> getStaticFallbackModels(provider), source |-> "static"]

\* the models and source chosen by the catch block after `await modelsDevPromise`
FallbackModels(provider) ==
  LET catalogModels == getModelsFromModelsDev(modelsDevCache.data, provider)
  IN  IF Len(catalogModels) > 0
      THEN [models |-> catalogModels, source |-> "models.dev"]
      ELSE [models |-> getStaticFallbackModels(provider), source |-> "static"]

\* the catch block of fetchModels once the catalog promise has resolved
Fallback(c) ==
  LET call == calls[c]
      fb == FallbackModels(call.provider)
  IN  /\ call.pc = "fallback"
      /\ call.ensure = "resolved"
      /\ UNCHANGED <<modelsDevCache, stampedBy, now, started, ticks, pure, dialog>>
      /\ IF Enriches(call.provider)
         THEN /\ calls' = [calls EXCEPT ![c].pc = "enrich",
                                        ![c].models = fb.models,
                                        ![c].source = fb.source]
              /\ UNCHANGED <<cache, written>>
         ELSE Finish(c, call, fb.models, fb.source, None)

\* a fetchModels that enriches without awaiting the catalog promise
Enrich_NoAwait(c) ==
  LET call == calls[c]
  IN  /\ call.pc = "enrich"
      /\ UNCHANGED <<modelsDevCache, stampedBy, now, started, ticks, pure, dialog>>
      /\ Finish(c, call,
                enrichWithModelsDev(modelsDevCache.data, call.models, call.provider),
                call.source, call.apiModels)

\* `await modelsDevPromise; models = this.enrichWithModelsDev(models, provider)`
\* and the tail of fetchModels
Enrich(c) ==
  LET call == calls[c]
  IN  /\ call.pc = "enrich"
      /\ call.ensure = "resolved"
      /\ UNCHANGED <<modelsDevCache, stampedBy, now, started, ticks, pure, dialog>>
      /\ Finish(c, call,
                enrichWithModelsDev(modelsDevCache.data, call.models, call.provider),
                call.source, call.apiModels)

\* a clearCache that deletes the keys in which the provider tag occurs
ClearedKeys_Includes(provider) ==
  IF provider = None THEN DOMAIN cache
  ELSE {k \in DOMAIN cache : Includes(k, ProviderString(Get(provider)))}

\* the keys clearCache deletes: all, or those that start with the provider tag
ClearedKeys(provider) ==
  IF provider = None THEN DOMAIN cache
  ELSE {k \in DOMAIN cache : StartsWith(k, ProviderString(Get(provider)))}

\* clearCache(provider) when it has something to delete
ClearEntries(provider) ==
  /\ ClearedKeys(provider) # {}
  /\ cache' = [k \in DOMAIN cache \ ClearedKeys(provider) |-> cache[k]]
  /\ written' = [k \in DOMAIN written \ ClearedKeys(provider) |-> written[k]]
  /\ UNCHANGED <<modelsDevCache, stampedBy, now, calls, started, ticks, dialog>>

clearCache(provider) == ClearEntries(provider) /\ UNCHANGED pure

\* whether some invocation is between its first await and its return, or its
\* catalog request is still unanswered
InFlight ==
  \E c \in CallIds : calls[c].pc \notin {"idle", "done"} \/ calls[c].ensure = "pending"

\* Time passes between invocations, a bounded number of times.  (While an invocation is suspended, time
\* passes by the Latency of each request: every request carries
\* `timeout: 15000`, far less than either TTL.)
Tick(d) ==
  /\ ~InFlight
  /\ DOMAIN cache # {} \/ modelsDevCache.data # None
  /\ ticks' = ticks + 1
  /\ now' = now + d
  /\ UNCHANGED <<cache, written, modelsDevCache, stampedBy, calls, started, pure, dialog>>

Next ==
  \/ \E c \in Slots, provider \in APIProvider, apiKey \in ApiKeys :
       \E forceRefresh \in ForceRefresh(provider, apiKey),
          endpoint \in Endpoints(provider) :
         started < MaxStarted /\ FetchModels(c, provider, apiKey, forceRefresh, endpoint, None)
  \/ \E c \in Slots, resp \in CatalogResponses : CatalogResponse(c, resp)
  \/ \E c \in Slots : NoKeyReturn(c)
  \/ \E c \in Slots : \E resp \in ProviderResponses(calls[c].provider) :
       ProviderSettles(c, resp)
  \/ \E c \in Slots : Fallback(c)
  \/ \E c \in Slots : Enrich(c)
  \/ \E provider \in {None} \cup {Some(p) : p \in APIProvider} : clearCache(provider)
  \/ \E d \in TickSteps : ticks < MaxTicks /\ Tick(d)

Spec == Init /\ [][Next]_vars

\* The steps by which the invocation of slot c goes on once a request of its
\* own has been answered or a promise it awaits has resolved.
Proceeds(c) ==
  \/ \E resp \in CatalogResponses : CatalogResponse(c, resp)
  \/ NoKeyReturn(c)
  \/ \E resp \in ProviderResponses(calls[c].provider) : ProviderSettles(c, resp)
  \/ Fallback(c)
  \/ Enrich(c)

\* ENABLED Proceeds(c), from the guards of its five actions
CanProceed(c) ==
  \/ calls[c].ensure = "pending"
  \/ calls[c].pc = "api"
  \/ calls[c].pc \in {"nokey", "fallback", "enrich"} /\ calls[c].ensure = "resolved"

\* a step of the invocation in slot c: only the steps of Proceeds(c) change
\* the record of an invocation and keep its number
Proceeded(c) == calls'[c] # calls[c] /\ calls'[c].seq = calls[c].seq

\* Every request carries a timeout (15 s for the provider and the catalog),
\* so each is answered or fails, and the event loop resumes a continuation
\* whose promise has settled: weak fairness of Proceeds(c), written with
\* ENABLED and the step spelled out.
Fairness(c) == []<>(~CanProceed(c)) \/ []<><<Proceeded(c)>>_vars

SpecFair == Spec /\ \A c \in Slots : Fairness(c)

-----------------------------------------------------------------------------
(* Invocations that overlap: a second invocation may start while the first  *)
(* is suspended at an await, for the same cache key or for another one.     *)
(* Two of the three keys have the same hash.  The cache is not cleared.     *)

OverlapProviders == {"openai", "openrouter"}

OverlapKeys == { <<"A","a">>, <<"B","B">>, <<"A","b">> }

MaxOverlapCalls == 2

\* Slots are interchangeable: an invocation takes the free one that was used
\* longest ago, so that the records of the last two invocations are kept.
FreeSlots ==
  {c \in CallIds : calls[c].pc \in {"idle", "done"} /\ calls[c].ensure # "pending"}

OldestFreeSlot ==
  {c \in FreeSlots :
     \A d \in FreeSlots :
       \/ calls[c].seq < calls[d].seq
       \/ calls[c].seq = calls[d].seq /\ (c = d \/ c = "c1")}

NextOverlap ==
  \/ \E c \in CallIds, provider \in OverlapProviders, apiKey \in OverlapKeys :
       \E forceRefresh \in ForceRefresh(provider, apiKey) :
         /\ started < MaxOverlapCalls
         /\ c \in OldestFreeSlot
         /\ FetchModels(c, provider, apiKey, forceRefresh, None, None)
  \/ \E c \in CallIds, resp \in CatalogResponses : CatalogResponse(c, resp)
  \/ \E c \in CallIds : \E resp \in ProviderResponses(calls[c].provider) :
       ProviderSettles(c, resp)
  \/ \E c \in CallIds : Fallback(c)
  \/ \E c \in CallIds : Enrich(c)
  \/ \E d \in TickSteps : ticks < MaxTicks /\ started < MaxOverlapCalls /\ Tick(d)

SpecOverlap == Init /\ [][NextOverlap]_vars

-----------------------------------------------------------------------------
(* The catalog exercised over more invocations: every invocation is made    *)
(* without an API key, so that it is ensureModelsDevData and the catalog    *)
(* lookup alone.                                                            *)

MaxCatalogCalls == 3

MaxCatalogTicks == 2

NextCatalog ==
  \/ \E c \in Slots, provider \in APIProvider :
       started < MaxCatalogCalls /\ FetchModels(c, provider, <<>>, FALSE, None, None)
  \/ \E c \in Slots, resp \in CatalogResponses : CatalogResponse(c, resp)
  \/ \E c \in Slots : NoKeyReturn(c)
  \/ \E d \in TickSteps : ticks < MaxCatalogTicks /\ Tick(d)

SpecCatalog == Init /\ [][NextCatalog]_vars

\* The same, the catalog server also answering with an empty ETag header.
RefreshResponses ==
  CatalogResponses \cup {[status |-> 200, data |-> Some(CatalogA), etag |-> Some("")]}

NextRefresh ==
  \/ \E c \in Slots, provider \in APIProvider :
       started < MaxCatalogCalls /\ FetchModels(c, provider, <<>>, FALSE, None, None)
  \/ \E c \in Slots, resp \in RefreshResponses : CatalogResponse(c, resp)
  \/ \E c \in Slots : NoKeyReturn(c)
  \/ \E d \in TickSteps : ticks < MaxCatalogTicks /\ Tick(d)

SpecRefresh == Init /\ [][NextRefresh]_vars

-----------------------------------------------------------------------------
(* clearCache among invocations for several providers: the argument of the   *)
(* last clearCache is kept in pure.  Every invocation uses the same key and  *)
(* no entry expires.                                                         *)

MaxClearCalls == 3

ClearKey == <<"A","a">>

\* clearCache(provider), its argument noted
ClearCacheCalled(provider) ==
  /\ ClearEntries(provider)
  /\ pure' = [stage |-> "cleared", provider |-> provider]

NextClear ==
  \/ \E c \in Slots, provider \in APIProvider :
       started < MaxClearCalls /\ FetchModels(c, provider, ClearKey, FALSE, None, None)
  \/ \E c \in Slots, resp \in CatalogResponses : CatalogResponse(c, resp)
  \/ \E c \in Slots : \E resp \in ProviderResponses(calls[c].provider) :
       ProviderSettles(c, resp)
  \/ \E c \in Slots : Fallback(c)
  \/ \E c \in Slots : Enrich(c)
  \/ \E provider \in {None} \cup {Some(p) : p \in APIProvider} :
       ClearCacheCalled(provider)

SpecClear == Init /\ [][NextClear]_vars

-----------------------------------------------------------------------------
(* Azure OpenAI with its options: invocations for one provider and one key  *)
(* that differ in endpoint and apiVersion.                                  *)

MaxAzureCalls == 2

AzureEndpoints ==
  {None, Some("https://res.openai.azure.com"), Some("https://other.openai.azure.com")}

AzureApiVersions == {None, Some("2024-06-01")}

NextAzure ==
  \/ \E c \in Slots, endpoint \in AzureEndpoints, apiVersion \in AzureApiVersions :
       \E forceRefresh \in ForceRefresh("azure-openai", ClearKey) :
         /\ started < MaxAzureCalls
         /\ FetchModels(c, "azure-openai", ClearKey, forceRefresh, endpoint, apiVersion)
  \/ \E c \in Slots, resp \in CatalogResponses : CatalogResponse(c, resp)
  \/ \E c \in Slots : \E resp \in ProviderResponses(calls[c].provider) :
       ProviderSettles(c, resp)
  \/ \E c \in Slots : Fallback(c)
  \/ \E c \in Slots : Enrich(c)
  \/ \E provider \in {None, Some("azure-openai")} : ClearCacheCalled(provider)
  \/ \E d \in TickSteps : ticks < MaxTicks /\ Tick(d)

SpecAzure == Init /\ [][NextAzure]_vars

-----------------------------------------------------------------------------
(* enrichWithModelsDev exercised alone: its arguments are drawn from the    *)
(* model lists below and from the snapshots the service can hold, and it is *)
(* applied to them once, then to its own output.                            *)

\* the longest model list given to a pure function
MaxModels == 2

PureIds == { <<"g","p","t","-","4","o">>, <<"g","p","t","-","4","o","-","m","i","n","i">>, <<"f","t","-","l","o","c","a","l">> }

Price(input, output) ==
  [input |-> input, output |-> output, cacheRead |-> None, cacheWrite |-> None]

\* the optional fields of a FetchedModel as <<pricing, contextLength, capabilities>>
PureProfiles ==
  { <<None, None, None>>,
    <<Some(Price(0, 0)), Some(0), Some(Capabilities(Some(TRUE), Some(FALSE), None, None))>>,
    <<Some(Price(700, 900)), Some(4096),
      Some(Capabilities(Some(TRUE), Some(TRUE), Some(TRUE), Some(FALSE)))>>,
    <<None, Some(4096), Some(Capabilities(None, None, Some(FALSE), None))>>,
    <<Some(Price(700, 900)), None, None>> }

PureModels(provider) ==
  { FetchedModel(id, id, provider, f[1], f[2], f[3]) : id \in PureIds, f \in PureProfiles }

\* the lists of at most MaxModels models
PureLists(provider) ==
  UNION { [1..n -> PureModels(provider)] : n \in 0..MaxModels }

\* the values modelsDevCache.data can have
SnapshotDatas == {None, Some(CatalogA), Some(CatalogB)}

InitEnrich ==
  /\ cache = EmptyMap
  /\ written = EmptyMap
  /\ modelsDevCache = [data |-> None, timestamp |-> 0, etag |-> None]
  /\ stampedBy = None
  /\ now = MODELS_DEV_CACHE_TTL
  /\ calls = [c \in CallIds |-> IdleCall]
  /\ started = 0
  /\ ticks = 0
  /\ dialog = NoDialog
  /\ \E provider \in APIProvider, data \in SnapshotDatas :
       \E models \in PureLists(provider) \cup {getModelsFromModelsDev(data, provider)} :
         pure = [stage |-> "input", provider |-> provider, data |-> data,
                 models |-> models, once |-> <<>>, twice |-> <<>>]

\* enrichWithModelsDev(models, provider)
EnrichOnce ==
  /\ pure.stage = "input"
  /\ pure' = [pure EXCEPT !.stage = "once",
                          !.once = enrichWithModelsDev(pure.data, pure.models, pure.provider)]
  /\ UNCHANGED <<cache, written, modelsDevCache, stampedBy, now, calls, started, ticks, dialog>>

\* enrichWithModelsDev applied to its own output
EnrichAgain ==
  /\ pure.stage = "once"
  /\ pure' = [pure EXCEPT !.stage = "twice",
                          !.twice = enrichWithModelsDev(pure.data, pure.once, pure.provider)]
  /\ UNCHANGED <<cache, written, modelsDevCache, stampedBy, now, calls, started, ticks, dialog>>

NextEnrich == EnrichOnce \/ EnrichAgain

SpecEnrich == InitEnrich /\ [][NextEnrich]_vars

-----------------------------------------------------------------------------
(* shared/aiModels.ts: sanitizeModelSelection. It is exercised alone: the   *)
(* chosen id, provider, category and dynamic allow-list are drawn from the  *)
(* sets below, and the function is applied once, then to its own output.    *)

ModelCategoryKey == {"extractionModel", "solutionModel", "debuggingModel", "answerModel"}

DEFAULT_MODELS ==
  "openai" :> [extractionModel |-> <<"g","p","t","-","4","o">>, solutionModel |-> <<"g","p","t","-","4","o">>,
               debuggingModel |-> <<"g","p","t","-","4","o">>, answerModel |-> <<"g","p","t","-","4","o","-","m","i","n","i">>,
               speechRecognitionModel |-> Some(<<"w","h","i","s","p","e","r","-","1">>)]
  @@ "gemini" :> [extractionModel |-> <<"g","e","m","i","n","i","-","3","-","f","l","a","s","h","-","p","r","e","v","i","e","w">>,
                  solutionModel |-> <<"g","e","m","i","n","i","-","3","-","f","l","a","s","h","-","p","r","e","v","i","e","w">>,
                  debuggingModel |-> <<"g","e","m","i","n","i","-","3","-","f","l","a","s","h","-","p","r","e","v","i","e","w">>,
                  answerModel |-> <<"g","e","m","i","n","i","-","3","-","f","l","a","s","h","-","p","r","e","v","i","e","w">>,
                  speechRecognitionModel |-> Some(<<"g","e","m","i","n","i","-","3","-","f","l","a","s","h","-","p","r","e","v","i","e","w">>)]
  @@ "anthropic" :> [extractionModel |-> <<"c","l","a","u","d","e","-","3","-","7","-","s","o","n","n","e","t","-","2","0","2","5","0","2","1","9">>,
                     solutionModel |-> <<"c","l","a","u","d","e","-","3","-","7","-","s","o","n","n","e","t","-","2","0","2","5","0","2","1","9">>,
                     debuggingModel |-> <<"c","l","a","u","d","e","-","3","-","7","-","s","o","n","n","e","t","-","2","0","2","5","0","2","1","9">>,
                     answerModel |-> <<"c","l","a","u","d","e","-","3","-","7","-","s","o","n","n","e","t","-","2","0","2","5","0","2","1","9">>,
                     speechRecognitionModel |-> None]
  @@ "azure-openai" :> [extractionModel |-> <<"g","p","t","-","4","o">>, solutionModel |-> <<"g","p","t","-","4","o">>,
                        debuggingModel |-> <<"g","p","t","-","4","o">>, answerModel |-> <<"g","p","t","-","4","o","-","m","i","n","i">>,
                        speechRecognitionModel |-> Some(<<"w","h","i","s","p","e","r","-","1">>)]
  @@ "openrouter" :> [extractionModel |-> <<"o","p","e","n","a","i","/","g","p","t","-","4","o">>,
                      solutionModel |-> <<"o","p","e","n","a","i","/","g","p","t","-","4","o">>,
                      debuggingModel |-> <<"o","p","e","n","a","i","/","g","p","t","-","4","o">>,
                      answerModel |-> <<"o","p","e","n","a","i","/","g","p","t","-","4","o","-","m","i","n","i">>,
                      speechRecognitionModel |-> None]

\* Array.prototype.includes on a list of ids
ListIncludes(list, x) == \E i \in 1..Len(list) : list[i] = x

\* dynamicAllowList && dynamicAllowList.length > 0 && dynamicAllowList.includes(model)
InDynamicList(model, dynamicAllowList) ==
  \E list \in dynamicAllowList : Len(list) > 0 /\ ListIncludes(list, model)

\* (provider is azure-openai or openrouter) && model && model.trim().length > 0
AcceptedAsOpen(model, provider) ==
  /\ provider \in {"azure-openai", "openrouter"}
  /\ model # <<>>
  /\ ~TrimIsEmpty(model)

sanitizeModelSelection_DefaultAnswerForAllowed(model, provider, category, dynamicAllowList) ==
  IF InDynamicList(model, dynamicAllowList) THEN model
  ELSE IF AcceptedAsOpen(model, provider) THEN model
  ELSE IF ListIncludes(ALLOWED_MODELS[provider], model)
       THEN DEFAULT_MODELS[provider].answerModel
  ELSE LET fallback == DEFAULT_MODELS[provider][category]
       IN  IF fallback # <<>> THEN fallback ELSE model

sanitizeModelSelection_NoFallback(model, provider, category, dynamicAllowList) ==
  model

sanitizeModelSelection_AnyCategory(model, provider, category, dynamicAllowList) ==
  IF InDynamicList(model, dynamicAllowList) THEN model
  ELSE IF AcceptedAsOpen(model, provider) THEN model
  ELSE IF ListIncludes(ALLOWED_MODELS[provider], model) THEN model
  ELSE LET fallback == DEFAULT_MODELS[provider].answerModel
       IN  IF fallback # <<>> THEN fallback ELSE model

sanitizeModelSelection_DynamicListDecides(model, provider, category, dynamicAllowList) ==
  IF InDynamicList(model, dynamicAllowList) THEN model
  ELSE IF \E list \in dynamicAllowList : Len(list) > 0
       THEN DEFAULT_MODELS[provider][category]
  ELSE IF AcceptedAsOpen(model, provider) THEN model
  ELSE IF ListIncludes(ALLOWED_MODELS[provider], model) THEN model
  ELSE LET fallback == DEFAULT_MODELS[provider][category]
       IN  IF fallback # <<>> THEN fallback ELSE model

sanitizeModelSelection_OpenNeedsListing(model, provider, category, dynamicAllowList) ==
  IF InDynamicList(model, dynamicAllowList) THEN model
  ELSE IF ListIncludes(ALLOWED_MODELS[provider], model) THEN model
  ELSE LET fallback == DEFAULT_MODELS[provider][category]
       IN  IF fallback # <<>> THEN fallback ELSE model

\* the optional dynamicAllowList is None when the caller leaves it out
sanitizeModelSelection(model, provider, category, dynamicAllowList) ==
  IF InDynamicList(model, dynamicAllowList) THEN model
  ELSE IF AcceptedAsOpen(model, provider) THEN model
  ELSE IF ListIncludes(ALLOWED_MODELS[provider], model) THEN model
  ELSE LET fallback == DEFAULT_MODELS[provider][category]
       IN  IF fallback # <<>> THEN fallback ELSE model

\* the longest dynamic allow-list
MaxAllow == 2

\* the ids callers ask about: empty, blank, listed for some provider, a
\* deployment name, and ids no list knows
ChosenIds ==
  { <<>>, <<" ">>, <<"g","p","t","-","4","o">>, <<"g","p","t","-","4","o","-","m","i","n","i">>, <<"g","p","t","-","3","5","-","t","u","r","b","o">>, <<"g","e","m","i","n","i","-","1",".","5","-","p","r","o">>,
    <<"c","l","a","u","d","e","-","3","-","o","p","u","s","-","2","0","2","4","0","2","2","9">>, <<"o","p","e","n","a","i","/","g","p","t","-","4","o">>, <<"m","y","-","d","e","p","l","o","y","m","e","n","t">>, <<"b","o","g","u","s","-","i","d">> }

\* the ids a dynamic allow-list can hold (any string: the parameter is string[])
AllowIds == { <<>>, <<"g","p","t","-","4","o","-","m","i","n","i">>, <<"m","y","-","d","e","p","l","o","y","m","e","n","t">>, <<"b","o","g","u","s","-","i","d">> }

\* dynamicAllowList: left out, or a list of at most MaxAllow ids
AllowLists ==
  {None} \cup { Some(list) : list \in UNION { [1..n -> AllowIds] : n \in 0..MaxAllow } }

InitSanitize ==
  /\ cache = EmptyMap
  /\ written = EmptyMap
  /\ modelsDevCache = [data |-> None, timestamp |-> 0, etag |-> None]
  /\ stampedBy = None
  /\ now = MODELS_DEV_CACHE_TTL
  /\ calls = [c \in CallIds |-> IdleCall]
  /\ started = 0
  /\ ticks = 0
  /\ dialog = NoDialog
  /\ \E model \in ChosenIds, provider \in APIProvider, category \in ModelCategoryKey,
        dynamicAllowList \in AllowLists :
       pure = [stage |-> "input", model |-> model, provider |-> provider,
               category |-> category, dynamicAllowList |-> dynamicAllowList,
               once |-> <<>>, twice |-> <<>>]

\* sanitizeModelSelection(model, provider, category, dynamicAllowList)
SanitizeOnce ==
  /\ pure.stage = "input"
  /\ pure' = [pure EXCEPT !.stage = "once",
                          !.once = sanitizeModelSelection(pure.model, pure.provider,
                                     pure.category, pure.dynamicAllowList)]
  /\ UNCHANGED <<cache, written, modelsDevCache, stampedBy, now, calls, started, ticks, dialog>>

\* sanitizeModelSelection applied to its own result, other arguments unchanged
SanitizeAgain ==
  /\ pure.stage = "once"
  /\ pure' = [pure EXCEPT !.stage = "twice",
                          !.twice = sanitizeModelSelection(pure.once, pure.provider,
                                      pure.category, pure.dynamicAllowList)]
  /\ UNCHANGED <<cache, written, modelsDevCache, stampedBy, now, calls, started, ticks, dialog>>

NextSanitize == SanitizeOnce \/ SanitizeAgain

SpecSanitize == InitSanitize /\ [][NextSanitize]_vars

-----------------------------------------------------------------------------
(* electron/ProviderClientFactory.ts: createProviderClient. It reads the    *)
(* configuration that configHelper.loadConfig() returns; the configuration  *)
(* is drawn from the sets below and the function is applied to it.          *)

\* endpoint.replace(/\/$/, ""): one trailing slash is removed
StripTrailingSlash(s) ==
  IF Len(s) > 0 /\ s[Len(s)] = "/" THEN SubSeq(s, 1, Len(s) - 1) ELSE s

\* (x || d) for an optional string: d when x is undefined or empty
OrString(x, d) == IF x = None \/ x = Some(<<>>) THEN d ELSE Get(x)

\* the clients the SDK constructors give, as the options they were given
ProviderClient(type, apiKey, endpoint, apiVersion, baseURL) ==
  [type |-> type, apiKey |-> apiKey, endpoint |-> endpoint,
   apiVersion |-> apiVersion, baseURL |-> baseURL]

\* a factory that tests the key for emptiness only
createProviderClient_BlankKeyAccepted(config) ==
  IF config.apiKey = None \/ Get(config.apiKey) = <<>>
  THEN None
  ELSE LET apiKey == Get(config.apiKey)
           endpoint == StripTrailingSlash(OrString(config.azureEndpoint, <<>>))
           apiVersion == OrString(config.azureApiVersion, <<"2","0","2","5","-","0","1","-","0","1","-","p","r","e","v","i","e","w">>)
       IN  CASE config.apiProvider = "openai" ->
                  Some(ProviderClient("openai", apiKey, None, None, None))
             [] config.apiProvider = "gemini" ->
                  Some(ProviderClient("gemini", apiKey, None, None, None))
             [] config.apiProvider = "anthropic" ->
                  Some(ProviderClient("anthropic", apiKey, None, None, None))
             [] config.apiProvider = "azure-openai" ->
                  IF endpoint = <<>> THEN None
                  ELSE Some(ProviderClient("azure-openai", apiKey, Some(endpoint),
                                           Some(apiVersion), None))
             [] config.apiProvider = "openrouter" ->
                  Some(ProviderClient("openrouter", apiKey, None, None,
                                      Some(<<"h","t","t","p","s",":","/","/","o","p","e","n","r","o","u","t","e","r",".","a","i","/","a","p","i","/","v","1">>)))
             [] OTHER -> None

\* createProviderClient(), given what loadConfig() returned; null is None
createProviderClient(config) ==
  IF config.apiKey = None \/ TrimIsEmpty(Get(config.apiKey))
  THEN None
  ELSE LET apiKey == Get(config.apiKey)
           endpoint == StripTrailingSlash(OrString(config.azureEndpoint, <<>>))
           apiVersion == OrString(config.azureApiVersion, <<"2","0","2","5","-","0","1","-","0","1","-","p","r","e","v","i","e","w">>)
       IN  CASE config.apiProvider = "openai" ->
                  Some(ProviderClient("openai", apiKey, None, None, None))
             [] config.apiProvider = "gemini" ->
                  Some(ProviderClient("gemini", apiKey, None, None, None))
             [] config.apiProvider = "anthropic" ->
                  Some(ProviderClient("anthropic", apiKey, None, None, None))
             [] config.apiProvider = "azure-openai" ->
                  IF endpoint = <<>> THEN None
                  ELSE Some(ProviderClient("azure-openai", apiKey, Some(endpoint),
                                           Some(apiVersion), None))
             [] config.apiProvider = "openrouter" ->
                  Some(ProviderClient("openrouter", apiKey, None, None,
                                      Some(<<"h","t","t","p","s",":","/","/","o","p","e","n","r","o","u","t","e","r",".","a","i","/","a","p","i","/","v","1">>)))
             [] OTHER -> None

\* config.apiKey: missing, empty, blank, or a key
ConfigKeys == { None, Some(<<>>), Some(<<" ">>), Some(<<" "," ">>), Some(<<"s","k","-","1">>) }

\* config.apiProvider: the five providers and a value the switch does not know
ConfigProviders == APIProvider \cup {"mistral"}

\* config.azureEndpoint: missing, empty, a lone slash, a URL with and without
\* a trailing slash
ConfigEndpoints ==
  { None, Some(<<>>), Some(<<"/">>), Some(<<"h","t","t","p","s",":","/","/","r","e","s",".","o","p","e","n","a","i",".","a","z","u","r","e",".","c","o","m">>),
    Some(<<"h","t","t","p","s",":","/","/","r","e","s",".","o","p","e","n","a","i",".","a","z","u","r","e",".","c","o","m","/">>) }

\* config.azureApiVersion
ConfigApiVersions == { None, Some(<<"2","0","2","4","-","0","6","-","0","1">>) }

Configs ==
  [apiKey : ConfigKeys, apiProvider : ConfigProviders,
   azureEndpoint : ConfigEndpoints, azureApiVersion : ConfigApiVersions]

InitFactory ==
  /\ cache = EmptyMap
  /\ written = EmptyMap
  /\ modelsDevCache = [data |-> None, timestamp |-> 0, etag |-> None]
  /\ stampedBy = None
  /\ now = MODELS_DEV_CACHE_TTL
  /\ calls = [c \in CallIds |-> IdleCall]
  /\ started = 0
  /\ ticks = 0
  /\ dialog = NoDialog
  /\ \E config \in Configs :
       pure = [stage |-> "input", config |-> config, client |-> None]

\* createProviderClient()
CreateClient ==
  /\ pure.stage = "input"
  /\ pure' = [pure EXCEPT !.stage = "created",
                          !.client = createProviderClient(pure.config)]
  /\ UNCHANGED <<cache, written, modelsDevCache, stampedBy, now, calls, started, ticks, dialog>>

NextFactory == CreateClient

SpecFactory == InitFactory /\ [][NextFactory]_vars

-----------------------------------------------------------------------------
(* shared/aiModels.ts: MODEL_CATEGORIES, the ids the settings dialog offers  *)
(* per category and provider, each passed to sanitizeModelSelection.         *)

\* MODEL_CATEGORIES, as category |-> modelsByProvider, each model by its id
MODEL_CATEGORIES ==
  "extractionModel" :>
      ( "openai" :> << <<"g","p","t","-","4","o">>, <<"g","p","t","-","4","o","-","m","i","n","i">> >>
        @@ "gemini" :> << <<"g","e","m","i","n","i","-","3","-","p","r","o","-","p","r","e","v","i","e","w">>, <<"g","e","m","i","n","i","-","3","-","f","l","a","s","h","-","p","r","e","v","i","e","w">>, <<"g","e","m","i","n","i","-","1",".","5","-","p","r","o">>, <<"g","e","m","i","n","i","-","1",".","5","-","f","l","a","s","h">> >>
        @@ "anthropic" :> << <<"c","l","a","u","d","e","-","3","-","7","-","s","o","n","n","e","t","-","2","0","2","5","0","2","1","9">>, <<"c","l","a","u","d","e","-","3","-","5","-","s","o","n","n","e","t","-","2","0","2","4","1","0","2","2">>, <<"c","l","a","u","d","e","-","3","-","o","p","u","s","-","2","0","2","4","0","2","2","9">> >>
        @@ "azure-openai" :> << <<"g","p","t","-","4","o">>, <<"g","p","t","-","4","o","-","m","i","n","i">> >>
        @@ "openrouter" :> << <<"o","p","e","n","a","i","/","g","p","t","-","4","o">>, <<"o","p","e","n","a","i","/","g","p","t","-","4","o","-","m","i","n","i">>, <<"a","n","t","h","r","o","p","i","c","/","c","l","a","u","d","e","-","3",".","5","-","s","o","n","n","e","t">>, <<"g","o","o","g","l","e","/","g","e","m","i","n","i","-","p","r","o","-","1",".","5">> >> )
  @@ "solutionModel" :>
      ( "openai" :> << <<"g","p","t","-","4","o">>, <<"g","p","t","-","4","o","-","m","i","n","i">> >>
        @@ "gemini" :> << <<"g","e","m","i","n","i","-","3","-","p","r","o","-","l","a","t","e","s","t">>, <<"g","e","m","i","n","i","-","3","-","f","l","a","s","h","-","l","a","t","e","s","t">>, <<"g","e","m","i","n","i","-","3","-","p","r","o">>, <<"g","e","m","i","n","i","-","3","-","f","l","a","s","h">>, <<"g","e","m","i","n","i","-","1",".","5","-","p","r","o">> >>
        @@ "anthropic" :> << <<"c","l","a","u","d","e","-","3","-","7","-","s","o","n","n","e","t","-","2","0","2","5","0","2","1","9">>, <<"c","l","a","u","d","e","-","3","-","5","-","s","o","n","n","e","t","-","2","0","2","4","1","0","2","2">>, <<"c","l","a","u","d","e","-","3","-","o","p","u","s","-","2","0","2","4","0","2","2","9">> >>
        @@ "azure-openai" :> << <<"g","p","t","-","4","o">>, <<"g","p","t","-","4","o","-","m","i","n","i">> >>
        @@ "openrouter" :> << <<"o","p","e","n","a","i","/","g","p","t","-","4","o">>, <<"o","p","e","n","a","i","/","g","p","t","-","4","o","-","m","i","n","i">>, <<"a","n","t","h","r","o","p","i","c","/","c","l","a","u","d","e","-","3",".","5","-","s","o","n","n","e","t">>, <<"g","o","o","g","l","e","/","g","e","m","i","n","i","-","p","r","o","-","1",".","5">> >> )
  @@ "debuggingModel" :>
      ( "openai" :> << <<"g","p","t","-","4","o">>, <<"g","p","t","-","4","o","-","m","i","n","i">> >>
        @@ "gemini" :> << <<"g","e","m","i","n","i","-","3","-","p","r","o","-","l","a","t","e","s","t">>, <<"g","e","m","i","n","i","-","3","-","f","l","a","s","h","-","l","a","t","e","s","t">>, <<"g","e","m","i","n","i","-","3","-","p","r","o">>, <<"g","e","m","i","n","i","-","3","-","f","l","a","s","h">>, <<"g","e","m","i","n","i","-","1",".","5","-","p","r","o">> >>
        @@ "anthropic" :> << <<"c","l","a","u","d","e","-","3","-","7","-","s","o","n","n","e","t","-","2","0","2","5","0","2","1","9">>, <<"c","l","a","u","d","e","-","3","-","5","-","s","o","n","n","e","t","-","2","0","2","4","1","0","2","2">>, <<"c","l","a","u","d","e","-","3","-","o","p","u","s","-","2","0","2","4","0","2","2","9">> >>
        @@ "azure-openai" :> << <<"g","p","t","-","4","o">>, <<"g","p","t","-","4","o","-","m","i","n","i">> >>
        @@ "openrouter" :> << <<"o","p","e","n","a","i","/","g","p","t","-","4","o">>, <<"o","p","e","n","a","i","/","g","p","t","-","4","o","-","m","i","n","i">>, <<"a","n","t","h","r","o","p","i","c","/","c","l","a","u","d","e","-","3",".","5","-","s","o","n","n","e","t">>, <<"g","o","o","g","l","e","/","g","e","m","i","n","i","-","p","r","o","-","1",".","5">> >> )
  @@ "answerModel" :>
      ( "openai" :> << <<"g","p","t","-","4","o","-","m","i","n","i">>, <<"g","p","t","-","4","o">> >>
        @@ "gemini" :> << <<"g","e","m","i","n","i","-","3","-","f","l","a","s","h","-","p","r","e","v","i","e","w">>, <<"g","e","m","i","n","i","-","3","-","p","r","o","-","p","r","e","v","i","e","w">>, <<"g","e","m","i","n","i","-","1",".","5","-","p","r","o">>, <<"g","e","m","i","n","i","-","1",".","5","-","f","l","a","s","h">> >>
        @@ "anthropic" :> << <<"c","l","a","u","d","e","-","3","-","7","-","s","o","n","n","e","t","-","2","0","2","5","0","2","1","9">>, <<"c","l","a","u","d","e","-","3","-","5","-","s","o","n","n","e","t","-","2","0","2","4","1","0","2","2">>, <<"c","l","a","u","d","e","-","3","-","o","p","u","s","-","2","0","2","4","0","2","2","9">> >>
        @@ "azure-openai" :> << <<"g","p","t","-","4","o","-","m","i","n","i">>, <<"g","p","t","-","4","o">> >>
        @@ "openrouter" :> << <<"o","p","e","n","a","i","/","g","p","t","-","4","o","-","m","i","n","i">>, <<"o","p","e","n","a","i","/","g","p","t","-","4","o">>, <<"a","n","t","h","r","o","p","i","c","/","c","l","a","u","d","e","-","3",".","5","-","s","o","n","n","e","t">> >> )

\* the ids offered for a category and provider
OfferedIds(category, provider) ==
  {MODEL_CATEGORIES[category][provider][i] :
     i \in 1..Len(MODEL_CATEGORIES[category][provider])}

\* the dynamicAllowList when no fetched list is available: left out, or empty
NoAllowLists == {None, Some(<<>>)}

InitOffered ==
  /\ cache = EmptyMap
  /\ written = EmptyMap
  /\ modelsDevCache = [data |-> None, timestamp |-> 0, etag |-> None]
  /\ stampedBy = None
  /\ now = MODELS_DEV_CACHE_TTL
  /\ calls = [c \in CallIds |-> IdleCall]
  /\ started = 0
  /\ ticks = 0
  /\ dialog = NoDialog
  /\ \E category \in ModelCategoryKey, provider \in APIProvider,
        dynamicAllowList \in NoAllowLists :
       \E model \in OfferedIds(category, provider) :
         pure = [stage |-> "input", model |-> model, provider |-> provider,
                 category |-> category, dynamicAllowList |-> dynamicAllowList,
                 once |-> <<>>, twice |-> <<>>]

SpecOffered == InitOffered /\ [][NextSanitize]_vars

-----------------------------------------------------------------------------
(* src/components/Settings/SettingsDialog.tsx: the model list of the         *)
(* settings dialog.  window.electronAPI.fetchProviderModels is answered by   *)
(* the main process some time after it was called, and calls are answered in *)
(* any order; what it answers is drawn from FetchResults.  A request in      *)
(* flight is kept in dialog.inflight, a setTimeout(..., 0) callback that has *)
(* not run yet in dialog.timers.  History: listFor and sourceFor, the        *)
(* provider of the request whose answer set fetchedModels and                *)
(* modelFetchSource.                                                         *)

MaxChanges == 2

MaxClicks == 1

\* what fetchProviderModels may resolve to for a provider: a list from the
\* provider, a list without source, the static list with an error, nothing
\* at all (a FetchedModel is kept as its id and provider)
FetchResults(provider) ==
  { [success |-> TRUE, models |-> <<[id |-> "m1", provider |-> provider], [id |-> "m2", provider |-> provider]>>,
     error |-> None, source |-> Some("api")],
    [success |-> TRUE, models |-> <<[id |-> "m1", provider |-> provider]>>,
     error |-> None, source |-> None],
    [success |-> FALSE, models |-> <<[id |-> "m3", provider |-> provider]>>,
     error |-> Some("API key is required"), source |-> Some("static")],
    [success |-> FALSE, models |-> <<>>, error |-> None, source |-> None] }

\* the state of the component when the dialog is first rendered
InitialDialog ==
  [open |-> FALSE, configPending |-> FALSE, isLoading |-> FALSE,
   apiProvider |-> "openai", selected |-> DEFAULT_MODELS["openai"],
   fetchedModels |-> <<>>, isLoadingModels |-> FALSE,
   modelFetchError |-> None, modelFetchSource |-> None, modelSearchQuery |-> "",
   timers |-> <<>>, inflight |-> {}, issued |-> 0, changes |-> 0, clicks |-> 0,
   listFor |-> None, sourceFor |-> None]

InitDialog ==
  /\ cache = EmptyMap
  /\ written = EmptyMap
  /\ modelsDevCache = [data |-> None, timestamp |-> 0, etag |-> None]
  /\ stampedBy = None
  /\ now = MODELS_DEV_CACHE_TTL
  /\ calls = [c \in CallIds |-> IdleCall]
  /\ started = 0
  /\ ticks = 0
  /\ pure = NoPure
  /\ dialog = InitialDialog

\* doFetchModels up to its await: the three setters and the request
FetchStarted(d, provider) ==
  [d EXCEPT !.isLoadingModels = TRUE,
            !.modelFetchError = None,
            !.modelFetchSource = None,
            !.sourceFor = None,
            !.issued = d.issued + 1,
            !.inflight = d.inflight \cup {[id |-> d.issued + 1, provider |-> provider]}]

\* doFetchModels after its await: the promise of request req has settled,
\* resolved with Some(result) or rejected (None)
FetchSettled(d, req, outcome) ==
  LET rest == [d EXCEPT !.inflight = d.inflight \ {req}, !.isLoadingModels = FALSE]
  IN  IF outcome = None
      THEN [rest EXCEPT !.modelFetchError = Some("Failed to fetch models")]
      ELSE LET result == Get(outcome)
           IN  IF result.success
               THEN [rest EXCEPT !.fetchedModels = result.models,
                                 !.listFor = Some(req.provider),
                                 !.modelFetchSource = OrObj(result.source, Some("api")),
                                 !.sourceFor = Some(req.provider)]
               ELSE IF Len(result.models) > 0
               THEN [rest EXCEPT !.modelFetchError =
                                     OrObj(result.error, Some("Failed to fetch models")),
                                 !.fetchedModels = result.models,
                                 !.listFor = Some(req.provider),
                                 !.modelFetchSource = OrObj(result.source, Some("static")),
                                 !.sourceFor = Some(req.provider)]
               ELSE [rest EXCEPT !.modelFetchError =
                                     OrObj(result.error, Some("Failed to fetch models")),
                                 !.fetchedModels = <<>>,
                                 !.listFor = Some(req.provider)]

\* the dialog is opened: the effect on `open` asks for the configuration
OpenDialog ==
  /\ ~dialog.open
  /\ dialog' = [dialog EXCEPT !.open = TRUE, !.configPending = TRUE, !.isLoading = TRUE]
  /\ UNCHANGED <<cache, written, modelsDevCache, stampedBy, now, calls, started, ticks, pure>>

\* getConfig() resolves with a configuration that names the provider and
\* leaves the models to the defaults
ConfigLoaded(provider) ==
  /\ dialog.configPending
  /\ dialog' = FetchStarted([dialog EXCEPT !.configPending = FALSE,
                                           !.isLoading = FALSE,
                                           !.apiProvider = provider,
                                           !.selected = DEFAULT_MODELS[provider],
                                           !.fetchedModels = <<>>,
                                           !.listFor = None,
                                           !.modelSearchQuery = ""],
                            provider)
  /\ UNCHANGED <<cache, written, modelsDevCache, stampedBy, now, calls, started, ticks, pure>>

\* handleProviderChange(provider): a click on a provider card
HandleProviderChange(provider) ==
  /\ dialog.open
  /\ dialog.changes < MaxChanges
  /\ dialog' = [dialog EXCEPT !.apiProvider = provider,
                              !.fetchedModels = <<>>,
                              !.listFor = None,
                              !.modelSearchQuery = "",
                              !.modelFetchError = None,
                              !.selected = DEFAULT_MODELS[provider],
                              !.timers = Append(dialog.timers, provider),
                              !.changes = dialog.changes + 1]
  /\ UNCHANGED <<cache, written, modelsDevCache, stampedBy, now, calls, started, ticks, pure>>

\* the callback of setTimeout(..., 0) runs
TimerFires ==
  /\ dialog.timers # <<>>
  /\ dialog' = FetchStarted([dialog EXCEPT !.timers = Tail(dialog.timers)],
                            Head(dialog.timers))
  /\ UNCHANGED <<cache, written, modelsDevCache, stampedBy, now, calls, started, ticks, pure>>

\* handleFetchModels: the refresh button
HandleFetchModels ==
  /\ dialog.open
  /\ dialog.clicks < MaxClicks
  /\ dialog' = FetchStarted([dialog EXCEPT !.clicks = dialog.clicks + 1],
                            dialog.apiProvider)
  /\ UNCHANGED <<cache, written, modelsDevCache, stampedBy, now, calls, started, ticks, pure>>

\* the main process answers a request, or the call fails
FetchSettles(req, outcome) ==
  /\ req \in dialog.inflight
  /\ dialog' = FetchSettled(dialog, req, outcome)
  /\ UNCHANGED <<cache, written, modelsDevCache, stampedBy, now, calls, started, ticks, pure>>

NextDialog ==
  \/ OpenDialog
  \/ \E provider \in APIProvider : ConfigLoaded(provider)
  \/ \E provider \in APIProvider : HandleProviderChange(provider)
  \/ TimerFires
  \/ HandleFetchModels
  \/ \E req \in dialog.inflight :
       \E outcome \in {None} \cup {Some(r) : r \in FetchResults(req.provider)} :
         FetchSettles(req, outcome)

SpecDialog == InitDialog /\ [][NextDialog]_vars

-----------------------------------------------------------------------------
(* Properties.  Under Spec invocations do not overlap, so the snapshot an   *)
(* invocation read is the one in modelsDevCache when it has returned: the   *)
(* snapshot changes only in CatalogResponse, while an invocation is         *)
(* suspended or, for openrouter, which reads no snapshot, after it has      *)
(* returned without awaiting the catalog.                                   *)

\* the invocation in slot c has returned
Returned(c) == calls[c].pc = "done"

\* the ModelFetchResult it returned
Result(c) == Get(calls[c].result)

\* the entries of the provider's namespace that pass the catalog filter
EligibleEntries(data, provider) ==
  IF ~HasNamespace(data, provider) THEN {}
  ELSE {i \in 1..Len(NamespaceModels(data, provider)) :
          CatalogKeep(NamespaceModels(data, provider)[i])}

\* the invocation was asked to use the provider API: a key, and no cache hit
AskedProvider(c) ==
  Returned(c) /\ ~TrimIsEmpty(calls[c].apiKey) /\ Result(c).cachedAt = None

\* models is the eligible entries of the namespace, each converted, in
\* ascending order of name
IsEligibleCatalogList(models, data, provider) ==
  LET catalog == NamespaceModels(data, provider)
      eligible == EligibleEntries(data, provider)
  IN  /\ Len(models) = Cardinality(eligible)
      /\ \A i \in eligible :
           \E j \in 1..Len(models) : models[j] = modelsDevToFetchedModel(catalog[i], provider)
      /\ \A j \in 1..(Len(models) - 1) :
           LocaleCompare(models[j].name, models[j + 1].name) <= 0

\* C1: when the provider fetch of an invocation with a key fails, the source
\* of the result is never "api": it is "models.dev" when the snapshot holds
\* an eligible model for the provider's namespace, and "static" otherwise.
C1_FailedFetchSource ==
  \A c \in CallIds :
    Returned(c) /\ calls[c].apiError # None =>
      /\ Result(c).source # "api"
      /\ Result(c).source =
           IF EligibleEntries(modelsDevCache.data, calls[c].provider) # {}
           THEN "models.dev" ELSE "static"

\* a failed provider fetch was answered from the catalog
C1_Witness ==
  \E c \in CallIds :
    /\ Returned(c) /\ calls[c].apiError # None
    /\ ~TrimIsEmpty(calls[c].apiKey)
    /\ Result(c).source = "models.dev"

\* C2: an invocation with forceRefresh unset that finds a cache entry for its
\* key younger than CACHE_TTL returns at once, with the models and the
\* source returned by the invocation that wrote the entry, and sends neither
\* a provider request nor a catalog request.
C2_FreshEntryReturned ==
  [][\A c \in CallIds :
       LET call == calls'[c]
           cacheKey == CacheKey(call.provider, call.apiKey)
       IN  ( /\ started' = started + 1
             /\ call.seq = started'
             /\ ~call.forceRefresh
             /\ cacheKey \in DOMAIN cache
             /\ now - cache[cacheKey].timestamp < CACHE_TTL )
           => /\ call.pc = "done"
              /\ Get(call.result).models = written[cacheKey].models
              /\ Get(call.result).source = written[cacheKey].source
              /\ call.providerRequests = 0
              /\ call.catalogRequests = 0]_vars

\* a degraded result was served from an entry one millisecond short of its TTL
C2_Witness ==
  \E c \in CallIds :
    /\ Returned(c)
    /\ Result(c).cachedAt # None
    /\ now - Get(Result(c).cachedAt) = CACHE_TTL - 1
    /\ Result(c).source # "api"
    /\ Len(Result(c).models) > 0

\* C3: for a provider with a non-empty static list, the models of every
\* result are non-empty.
C3_ModelsNeverEmpty ==
  \A c \in CallIds :
    Returned(c) /\ Len(ALLOWED_MODELS[calls[c].provider]) > 0 =>
      Len(Result(c).models) > 0

\* C4: a result of an invocation that was asked to use the provider API and
\* whose source is not "api" carries the message of the provider failure as
\* its error.
C4_DegradedResultHasError ==
  \A c \in CallIds :
    AskedProvider(c) /\ Result(c).source # "api" =>
      /\ Result(c).error # None
      /\ Result(c).error = calls[c].apiError

\* C5: success is false only when the provider tier was unavailable or
\* failed, the catalog yields no model for the provider and the static list
\* of the provider is empty.
C5_FailureOnlyWhenExhausted ==
  \A c \in CallIds :
    Returned(c) /\ ~Result(c).success =>
      /\ TrimIsEmpty(calls[c].apiKey) \/ calls[c].apiError # None
      /\ EligibleEntries(modelsDevCache.data, calls[c].provider) = {}
      /\ Len(ALLOWED_MODELS[calls[c].provider]) = 0

C7_NoKeyStatic ==
  \A c \in CallIds :
    ( /\ Returned(c)
      /\ TrimIsEmpty(calls[c].apiKey)
      /\ EligibleEntries(modelsDevCache.data, calls[c].provider) = {} )
    => /\ calls[c].providerRequests = 0
       /\ Result(c).source = "static"
       /\ Result(c).error = Some("API key is required")
       /\ Len(Result(c).models) = Len(ALLOWED_MODELS[calls[c].provider])
       /\ \A i \in 1..Len(Result(c).models) :
            Result(c).models[i] =
              FetchedModel(ALLOWED_MODELS[calls[c].provider][i],
                           ALLOWED_MODELS[calls[c].provider][i],
                           calls[c].provider, None, None, None)

\* a blank key was answered from the static list although a snapshot is
\* loaded: the provider has no namespace in it
C7_Witness ==
  \E c \in CallIds :
    /\ Returned(c)
    /\ TrimIsEmpty(calls[c].apiKey)
    /\ modelsDevCache.data # None
    /\ ~HasNamespace(modelsDevCache.data, calls[c].provider)
    /\ Result(c).source = "static"

\* C8: when the provider fetch succeeds the invocation returns source "api",
\* on return the cache entry for its key holds exactly the returned models
\* with source "api", and the returned models are the fetched models
\* enriched from the snapshot, except for openrouter, whose fetched models
\* are returned as they are.
C8_ProviderSuccess ==
  [][\A c \in CallIds :
       LET call == calls'[c]
           cacheKey == CacheKey(call.provider, call.apiKey)
       IN  (calls[c].pc # "done" /\ call.pc = "done" /\ call.apiModels # None)
           => /\ Get(call.result).success
              /\ Get(call.result).source = "api"
              /\ cacheKey \in DOMAIN cache'
              /\ cache'[cacheKey].models = Get(call.result).models
              /\ cache'[cacheKey].source = "api"
              /\ Get(call.result).models =
                   IF call.provider = "openrouter" THEN Get(call.apiModels)
                   ELSE enrichWithModelsDev(modelsDevCache'.data, Get(call.apiModels),
                                            call.provider)]_vars

\* a provider fetch succeeded and enrichment changed what it returned
C8_Witness ==
  \E c \in CallIds :
    /\ Returned(c)
    /\ calls[c].apiModels # None
    /\ Result(c).source = "api"
    /\ Result(c).models # Get(calls[c].apiModels)
    /\ CacheKey(calls[c].provider, calls[c].apiKey) \in DOMAIN cache

\* C9: a model that carries a pricing, a pricing of zero included, comes out
\* of enrichWithModelsDev at the same position with the same pricing,
\* whatever the catalog entry of the same id holds.
C9_PricingKept ==
  pure.stage \in {"once", "twice"} =>
    \A i \in 1..Len(pure.models) :
      pure.models[i].pricing # None =>
        /\ i <= Len(pure.once)
        /\ pure.once[i].id = pure.models[i].id
        /\ pure.once[i].pricing = pure.models[i].pricing

\* a model priced at zero was enriched from a catalog entry with a price
C9_Witness ==
  /\ pure.stage = "once"
  /\ HasNamespace(pure.data, pure.provider)
  /\ \E i \in 1..Len(pure.models) :
       /\ pure.models[i].pricing = Some(Price(0, 0))
       /\ pure.once[i] # pure.models[i]
       /\ \E j \in 1..Len(NamespaceModels(pure.data, pure.provider)) :
            /\ NamespaceModels(pure.data, pure.provider)[j].id = pure.models[i].id
            /\ NamespaceModels(pure.data, pure.provider)[j].cost.input > 0

\* C10: enrichWithModelsDev applied to its own output, under the same
\* snapshot, returns that output; and applied to the models
\* getModelsFromModelsDev derives from the snapshot, it returns them.
C10_EnrichIdempotent ==
  /\ pure.stage = "twice" => pure.twice = pure.once
  /\ ( /\ pure.stage \in {"once", "twice"}
       /\ pure.models = getModelsFromModelsDev(pure.data, pure.provider) )
     => pure.once = pure.models

\* the first application both changed a model and appended catalog models
C10_Witness ==
  /\ pure.stage = "twice"
  /\ Len(pure.once) > Len(pure.models)
  /\ \E i \in 1..Len(pure.models) : pure.once[i] # pure.models[i]

C12_FlagsOnlyAdded ==
  pure.stage \in {"once", "twice"} =>
    \A i \in 1..Len(pure.models) :
      \A flag \in {"chat", "vision", "audio", "embedding"} :
        ( /\ pure.models[i].capabilities # None
          /\ Get(pure.models[i].capabilities)[flag] = Some(TRUE) )
        => /\ pure.once[i].capabilities # None
           /\ Get(pure.once[i].capabilities)[flag] = Some(TRUE)

\* a model with audio set was enriched from an entry that lists no audio
\* input, and a model with vision unset from an entry that lists images
C12_Witness ==
  /\ pure.stage = "once"
  /\ HasNamespace(pure.data, pure.provider)
  /\ \E i, k \in 1..Len(pure.models) :
       \E j \in 1..Len(NamespaceModels(pure.data, pure.provider)) :
         LET entry == NamespaceModels(pure.data, pure.provider)[j]
         IN  /\ entry.id = pure.models[i].id
             /\ entry.id = pure.models[k].id
             /\ pure.models[i].capabilities # None
             /\ Get(pure.models[i].capabilities).audio = Some(TRUE)
             /\ ModalityIncludes(entry, "audio") = Some(FALSE)
             /\ pure.models[k].capabilities # None
             /\ Get(pure.models[k].capabilities).vision = Some(FALSE)
             /\ Get(pure.once[k].capabilities).vision = Some(TRUE)

\* the response to the catalog request of the invocation in slot c arrives
\* in this step, with the given status
CatalogAnswered(c, status) ==
  /\ calls[c].ensure = "pending"
  /\ calls'[c].ensure = "resolved"
  /\ calls'[c].catalogStatus = Some(status)

\* an invocation starts in slot c in this step
Starts(c) == started' = started + 1 /\ calls'[c].seq = started'

\* C13: a 304 response leaves the snapshot's data and entity tag as they
\* were and sets its timestamp to the current time; an invocation that calls
\* ensureModelsDevData less than MODELS_DEV_CACHE_TTL after it sends no
\* catalog request.
C13_NotModified ==
  [][\A c \in CallIds :
       /\ CatalogAnswered(c, 304) =>
            /\ modelsDevCache'.data = modelsDevCache.data
            /\ modelsDevCache'.etag = modelsDevCache.etag
            /\ modelsDevCache'.timestamp = now'
       /\ ( /\ Starts(c)
            /\ calls'[c].ensure # "none"
            /\ stampedBy = Some(304)
            /\ now - modelsDevCache.timestamp < MODELS_DEV_CACHE_TTL )
          => /\ calls'[c].ensure = "resolved"
             /\ calls'[c].catalogRequests = 0]_vars

\* an invocation made CACHE_TTL after a 304 has returned from the catalog
\* without a request
C13_Witness ==
  \E c \in CallIds :
    /\ Returned(c)
    /\ stampedBy = Some(304)
    /\ calls[c].ensure = "resolved"
    /\ calls[c].catalogRequests = 0
    /\ now - modelsDevCache.timestamp = CACHE_TTL
    /\ Result(c).source = "models.dev"

\* the source the chain of fetchModels gives the invocation in slot c with
\* the snapshot as it is
ChainSource(c) ==
  IF calls[c].apiModels # None THEN "api"
  ELSE IF EligibleEntries(modelsDevCache.data, calls[c].provider) # {} THEN "models.dev"
  ELSE "static"

\* C14: a failed catalog request leaves the snapshot's data, timestamp and
\* entity tag as they were and ends ensureModelsDevData normally: the
\* invocation stays where it was in the chain, no error is recorded for it,
\* and it returns the result the chain gives with the snapshot as it was.
C14_FailedRefreshSwallowed ==
  [][\A c \in CallIds :
       /\ CatalogAnswered(c, 500) =>
            /\ modelsDevCache' = modelsDevCache
            /\ calls'[c].pc = calls[c].pc
            /\ calls'[c].result = calls[c].result
            /\ calls'[c].apiError = calls[c].apiError
       /\ (Returned(c) /\ calls[c].catalogStatus = Some(500) /\ Result(c).cachedAt = None)' =>
            /\ Result(c)'.source = ChainSource(c)'
            /\ Result(c)'.error \in {None, Some("API key is required")}]_vars

\* an invocation whose refresh failed was answered from the snapshot loaded
\* before
C14_Witness ==
  \E c \in CallIds :
    /\ Returned(c)
    /\ calls[c].catalogStatus = Some(500)
    /\ modelsDevCache.data # None
    /\ Result(c).source = "models.dev"

\* C15: a loaded snapshot stays loaded: its data changes only when a 200
\* response replaces it, whatever invocations, failed or 304 refreshes,
\* expiries and clearCache calls occur; and an invocation without a key
\* whose refresh of an expired snapshot failed is answered from its data.
C15_SnapshotNeverUnloaded ==
  [][/\ modelsDevCache.data # None =>
          /\ modelsDevCache'.data # None
          /\ (\A c \in CallIds : ~CatalogAnswered(c, 200)) =>
               modelsDevCache'.data = modelsDevCache.data
     /\ \A c \in CallIds :
          ( /\ Returned(c)
            /\ calls[c].catalogStatus = Some(500)
            /\ TrimIsEmpty(calls[c].apiKey)
            /\ EligibleEntries(modelsDevCache.data, calls[c].provider) # {} )'
          => IsEligibleCatalogList(Result(c).models, modelsDevCache.data,
                                   calls[c].provider)']_vars

\* a lookup without a key was answered from a snapshot older than its TTL
\* after the refresh failed
C15_Witness ==
  \E c \in CallIds :
    /\ Returned(c)
    /\ calls[c].catalogStatus = Some(500)
    /\ TrimIsEmpty(calls[c].apiKey)
    /\ now - modelsDevCache.timestamp >= MODELS_DEV_CACHE_TTL
    /\ Result(c).source = "models.dev"
    /\ Len(Result(c).models) > 0

\* C16: as long as no catalog request has succeeded the snapshot is empty,
\* getModelsFromModelsDev yields no model for any provider, and no result
\* has source "models.dev": the results of invocations without a key or with
\* a failed provider fetch have source "static".
C16_NoCatalogBeforeLoad ==
  stampedBy = None =>
    /\ modelsDevCache.data = None
    /\ \A provider \in APIProvider :
         getModelsFromModelsDev(modelsDevCache.data, provider) = <<>>
    /\ \A c \in CallIds :
         Returned(c) =>
           /\ Result(c).source # "models.dev"
           /\ (TrimIsEmpty(calls[c].apiKey) \/ calls[c].apiError # None)
                => Result(c).source = "static"

\* a provider fetch failed while the only catalog request so far had failed
C16_Witness ==
  \E c \in CallIds :
    /\ Returned(c)
    /\ stampedBy = None
    /\ calls[c].catalogStatus = Some(500)
    /\ calls[c].apiError # None
    /\ Result(c).source = "static"

\* the entries the catalog filter is to exclude: deprecated ones, ids with a
\* marker of embedding, speech-to-text or text-to-speech models, and entries
\* whose output limit and output cost are both zero
ToBeExcluded(m) ==
  \/ m.status = Some("deprecated")
  \/ Includes(m.id, <<"e","m","b","e","d","d","i","n","g">>)
  \/ Includes(m.id, <<"w","h","i","s","p","e","r">>)
  \/ Includes(m.id, <<"t","t","s">>)
  \/ (LimitOutput(m) = Some(0) /\ m.cost.output = 0)

\* C17: the models derived from the catalog for a provider are those of the
\* entries of its namespace that are not to be excluded, and no others.
C17_CatalogFilter ==
  \A c \in CallIds :
    (Returned(c) /\ TrimIsEmpty(calls[c].apiKey) /\ Result(c).source = "models.dev") =>
      LET catalog == NamespaceModels(modelsDevCache.data, calls[c].provider)
      IN  Ids(Result(c).models) =
            {catalog[i].id : i \in {j \in 1..Len(catalog) : ~ToBeExcluded(catalog[j])}}

\* the providers whose model space is closed: only listed ids are accepted
ClosedProviders == {"openai", "gemini", "anthropic"}

Sanitized == pure.stage \in {"once", "twice"}

\* the chosen id is in no list: the dynamic allow-list is absent, empty or
\* does not contain it, and the provider's static allow-list lacks it too
InNoList ==
  /\ \A list \in pure.dynamicAllowList : ~ListIncludes(list, pure.model)
  /\ ~ListIncludes(ALLOWED_MODELS[pure.provider], pure.model)

\* C18: sanitizeModelSelection is idempotent: sanitizing its own result with
\* the same provider, category and dynamic allow-list gives that result again.
C18_SanitizeIdempotent ==
  pure.stage = "twice" => pure.twice = pure.once

\* an unknown id was replaced by the default, and the default sanitized again
C18_Witness ==
  /\ pure.stage = "twice"
  /\ pure.provider = "openai"
  /\ pure.category = "extractionModel"
  /\ pure.model = <<"b","o","g","u","s","-","i","d">>
  /\ pure.once = <<"g","p","t","-","4","o">>
  /\ pure.twice = <<"g","p","t","-","4","o">>

\* C19 as stated: for openai, gemini and anthropic the result is in the
\* dynamic allow-list or in ALLOWED_MODELS[provider], and for every provider
\* and category the result is a non-empty string.
C19_AlwaysValidId ==
  Sanitized =>
    /\ pure.provider \in ClosedProviders =>
         \/ \E list \in pure.dynamicAllowList : ListIncludes(list, pure.once)
         \/ ListIncludes(ALLOWED_MODELS[pure.provider], pure.once)
    /\ pure.once # <<>>

\* C19 amended: for openai, gemini and anthropic the result is in the dynamic
\* allow-list or in ALLOWED_MODELS[provider]; for every provider and category
\* the result is a non-empty string, unless the chosen id is the empty string
\* and the dynamic allow-list contains the empty string.
C19_ValidId ==
  Sanitized =>
    /\ pure.provider \in ClosedProviders =>
         \/ \E list \in pure.dynamicAllowList : ListIncludes(list, pure.once)
         \/ ListIncludes(ALLOWED_MODELS[pure.provider], pure.once)
    /\ pure.once = <<>> =>
         /\ pure.model = <<>>
         /\ \E list \in pure.dynamicAllowList : ListIncludes(list, <<>>)

\* an empty id, with a dynamic allow-list that does not hold it, became the
\* default of a closed provider
C19_Witness ==
  /\ pure.stage = "once"
  /\ pure.provider = "anthropic"
  /\ pure.model = <<>>
  /\ pure.dynamicAllowList = Some(<< <<"m","y","-","d","e","p","l","o","y","m","e","n","t">> >>)
  /\ pure.once = <<"c","l","a","u","d","e","-","3","-","7","-","s","o","n","n","e","t","-","2","0","2","5","0","2","1","9">>

\* C20: for openai, gemini and anthropic, an id that is in neither the
\* dynamic allow-list nor ALLOWED_MODELS[provider] is replaced by
\* DEFAULT_MODELS[provider][category].
C20_FallbackIsCategoryDefault ==
  (Sanitized /\ pure.provider \in ClosedProviders /\ InNoList) =>
    pure.once = DEFAULT_MODELS[pure.provider][pure.category]

\* sanitize("bogus-id", "openai", "solutionModel") without a dynamic allow-list
C20_Witness ==
  /\ pure.stage = "once"
  /\ pure.provider = "openai"
  /\ pure.category = "solutionModel"
  /\ pure.model = <<"b","o","g","u","s","-","i","d">>
  /\ pure.dynamicAllowList = None
  /\ pure.once = <<"g","p","t","-","4","o">>

\* azure-openai and openrouter: the model space is open-ended
OpenProviders == {"azure-openai", "openrouter"}

\* C21: an id contained in a non-empty dynamic allow-list, or in the
\* provider's static allow-list, is returned unchanged, for every provider
\* and category.
C21_ListedIdUnchanged ==
  (/\ Sanitized
   /\ \/ \E list \in pure.dynamicAllowList : ListIncludes(list, pure.model)
      \/ ListIncludes(ALLOWED_MODELS[pure.provider], pure.model)) =>
    pure.once = pure.model

\* a statically listed id that is not the category default was kept although
\* the dynamic allow-list given did not contain it
C21_Witness ==
  /\ pure.stage = "once"
  /\ pure.provider = "openai"
  /\ pure.category = "extractionModel"
  /\ pure.model = <<"g","p","t","-","4","o","-","m","i","n","i">>
  /\ pure.dynamicAllowList = Some(<< <<"b","o","g","u","s","-","i","d">> >>)
  /\ pure.once = <<"g","p","t","-","4","o","-","m","i","n","i">>

AzureWithKey(c) ==
  calls[c].provider = "azure-openai" /\ calls[c].apiKey # <<>>

\* the Azure listing endpoint was asked and failed or answered an empty list
AzureListingUnavailable(c) ==
  \E resp \in calls[c].apiResponse : ~resp.ok \/ resp.data = <<>>

\* C23 as stated: an azure-openai invocation with a non-empty credential and
\* no endpoint sends no request to the listing endpoint and returns a result
\* with source "models.dev" or "static"; with an endpoint whose listing fails
\* or is empty it returns such a result too.
C23_AzureAlwaysFallsBack ==
  \A c \in CallIds :
    (Returned(c) /\ AzureWithKey(c)) =>
      /\ calls[c].endpoint = None =>
           /\ calls[c].providerRequests = 0
           /\ calls[c].result # None
           /\ Result(c).source \in {"models.dev", "static"}
      /\ AzureListingUnavailable(c) =>
           /\ calls[c].result # None
           /\ Result(c).source \in {"models.dev", "static"}

\* C23 amended: the same, for the invocations that are not answered from a
\* fresh cache entry; one that is sends no request either and returns the
\* entry with the source recorded in it.
C23_AzureFallsBackUnlessCached ==
  \A c \in CallIds :
    (Returned(c) /\ AzureWithKey(c)) =>
      /\ calls[c].endpoint = None =>
           /\ calls[c].providerRequests = 0
           /\ calls[c].result # None
           /\ IF Result(c).cachedAt = None
              THEN Result(c).source \in {"models.dev", "static"}
              ELSE LET cacheKey == CacheKey("azure-openai", calls[c].apiKey)
                   IN  cacheKey \in DOMAIN written =>
                         Result(c).source = written[cacheKey].source
      /\ AzureListingUnavailable(c) =>
           /\ calls[c].result # None
           /\ Result(c).cachedAt = None
           /\ Result(c).source \in {"models.dev", "static"}

\* an invocation without endpoint went through the catch block to the catalog
C23_Witness ==
  \E c \in CallIds :
    /\ Returned(c)
    /\ AzureWithKey(c)
    /\ calls[c].endpoint = None
    /\ calls[c].apiError = Some("Azure OpenAI requires an endpoint URL")
    /\ calls[c].providerRequests = 0
    /\ Result(c).source = "models.dev"

KeyOf(c) == CacheKey(calls[c].provider, calls[c].apiKey)

\* an invocation made without forceRefresh that sent a request to its
\* provider's listing endpoint
Attempted(c) ==
  calls[c].seq > 0 /\ ~calls[c].forceRefresh /\ calls[c].providerRequests = 1

\* one of the two invocations was made while the other was suspended
Overlapping(c, d) ==
  calls[c].seq \in calls[d].during \/ calls[d].seq \in calls[c].during

\* C25 as stated: two invocations for one cache key, made without
\* forceRefresh, never both send a provider request less than CACHE_TTL
\* apart, even when they overlap.
C25_OneAttemptPerWindow ==
  \A c, d \in CallIds :
    (c # d /\ Attempted(c) /\ Attempted(d) /\ KeyOf(c) = KeyOf(d)) =>
      (calls[d].startedAt - calls[c].startedAt >= CACHE_TTL
       \/ calls[c].startedAt - calls[d].startedAt >= CACHE_TTL)

\* C25 amended: two invocations for one cache key, made without forceRefresh
\* and not overlapping, never both send a provider request less than
\* CACHE_TTL apart, whether or not the first request failed.
C25_OneAttemptPerWindowInSequence ==
  \A c, d \in CallIds :
    (/\ c # d /\ Attempted(c) /\ Attempted(d) /\ KeyOf(c) = KeyOf(d)
     /\ ~Overlapping(c, d)) =>
      (calls[d].startedAt - calls[c].startedAt >= CACHE_TTL
       \/ calls[c].startedAt - calls[d].startedAt >= CACHE_TTL)

\* the first provider request failed, and the next invocation for the key
\* sent one only after the entry written by the first had expired
C25_Witness ==
  \E c, d \in CallIds :
    /\ Attempted(c) /\ Attempted(d) /\ KeyOf(c) = KeyOf(d)
    /\ calls[c].seq < calls[d].seq
    /\ ~Overlapping(c, d)
    /\ \E resp \in calls[c].apiResponse : ~resp.ok
    /\ calls[d].startedAt - calls[c].startedAt >= CACHE_TTL

\* the invocation that starts in slot c in this step is answered from the cache
CacheHit(c) == Starts(c) /\ calls'[c].pc = "done"

\* C26: an invocation made with one credential is never answered with a
\* cache entry that an invocation made with another credential wrote.
C26_EntryOfOwnCredential ==
  [][\A c \in CallIds :
       CacheHit(c) =>
         written[CacheKey(calls'[c].provider, calls'[c].apiKey)].apiKey = calls'[c].apiKey]_vars

\* the cache entry of key k is created, replaced or deleted in this step
EntryChanges(k) ==
  \/ k \in DOMAIN cache /\ k \notin DOMAIN cache'
  \/ k \notin DOMAIN cache /\ k \in DOMAIN cache'
  \/ k \in DOMAIN cache /\ k \in DOMAIN cache' /\ cache'[k] # cache[k]

\* the invocation in slot c takes a step
StepOf(c) == calls'[c] # calls[c]

\* C27: a step of an invocation changes no cache entry but that of the
\* invocation's own key, however the invocations interleave.
C27_OtherKeysUntouched ==
  [][\A c \in CallIds : \A k \in DOMAIN cache \cup DOMAIN cache' :
       (StepOf(c) /\ EntryChanges(k)) =>
         k = CacheKey(calls'[c].provider, calls'[c].apiKey)]_vars

\* two invocations for different keys overlapped, and the cache holds for
\* each key the list its invocation returned
C27_Witness ==
  \E c, d \in CallIds :
    /\ Returned(c) /\ Returned(d)
    /\ calls[c].seq \in calls[d].during
    /\ KeyOf(c) # KeyOf(d)
    /\ calls[c].provider = calls[d].provider
    /\ KeyOf(c) \in DOMAIN cache /\ KeyOf(d) \in DOMAIN cache
    /\ cache[KeyOf(c)].models = Result(c).models
    /\ cache[KeyOf(d)].models = Result(d).models
    /\ Result(c).models # Result(d).models

\* no two models of the list have the same id
DistinctIds(models) ==
  \A i, j \in 1..Len(models) : i # j => models[i].id # models[j].id

\* the provider listings and the catalogs of the environment name each id once
ListedOnce ==
  /\ \A provider \in APIProvider : \A resp \in ProviderResponses(provider) :
       \A i, j \in 1..Len(resp.data) :
         i # j => (IF provider = "gemini" THEN resp.data[i].name # resp.data[j].name
                   ELSE resp.data[i].id # resp.data[j].id)
  /\ \A resp \in CatalogResponses : \A data \in resp.data : \A provider \in APIProvider :
       HasNamespace(Some(data), provider) =>
         DistinctIds(NamespaceModels(Some(data), provider))

\* C28: the list an invocation returns holds no id twice, whether it comes
\* from the cache, from the provider with enrichment, from the catalog or
\* from the static list, given that the provider's listing and the catalog
\* name each id once.
C28_NoDuplicateIds ==
  ListedOnce => \A c \in CallIds : Returned(c) => DistinctIds(Result(c).models)

\* the provider's list was enriched: the catalog knew one of its ids and
\* added others
C28_Witness ==
  \E c \in CallIds :
    /\ Returned(c)
    /\ ListedOnce
    /\ Result(c).source = "api"
    /\ \E listed \in calls[c].apiModels :
         /\ Ids(listed) \cap Ids(getModelsFromModelsDev(modelsDevCache.data, calls[c].provider)) # {}
         /\ Len(Result(c).models) > Len(listed)
    /\ DistinctIds(Result(c).models)

\* the provider's listing priced the model of this id at zero: the
\* openrouter listing is the only one that carries prices
ListingSaysFree(c, id) ==
  /\ calls[c].provider = "openrouter"
  /\ \E resp \in calls[c].apiResponse : \E i \in 1..Len(resp.data) :
       /\ resp.data[i].id = id
       /\ resp.data[i].pricing # None
       /\ Get(resp.data[i].pricing).prompt = Some(0)
       /\ Get(resp.data[i].pricing).completion = Some(0)

\* some catalog prices the model of this id at zero for the provider
CatalogSaysFree(provider, id) ==
  \E resp \in CatalogResponses : \E data \in resp.data :
    /\ HasNamespace(Some(data), provider)
    /\ \E i \in 1..Len(NamespaceModels(Some(data), provider)) :
         LET m == NamespaceModels(Some(data), provider)[i]
         IN  m.id = id /\ m.cost.input = 0 /\ m.cost.output = 0

\* C29: a model is returned with the price 0/0 only when the provider's
\* listing or the catalog gave that price for it; a model no source priced
\* has no pricing.
C29_ZeroPriceWasReported ==
  \A c \in CallIds :
    (Returned(c) /\ Result(c).cachedAt = None) =>
      \A i \in 1..Len(Result(c).models) :
        LET m == Result(c).models[i]
        IN  (\E p \in m.pricing : p.input = 0 /\ p.output = 0) =>
              (ListingSaysFree(c, m.id) \/ CatalogSaysFree(calls[c].provider, m.id))

\* the configured API key is missing, empty or white space only
KeyBlank(config) == config.apiKey = None \/ TrimIsEmpty(Get(config.apiKey))

\* C30 as stated: createProviderClient returns null when the API key is empty
\* or white space only, and when the provider is azure-openai with no
\* endpoint configured; for every other configuration of the five providers
\* it returns a client whose type is the configured provider.
C30_ClientUnlessUnconfigured ==
  pure.stage = "created" =>
    LET config == pure.config
        unconfigured ==
          \/ KeyBlank(config)
          \/ /\ config.apiProvider = "azure-openai"
             /\ config.azureEndpoint \in {None, Some(<<>>)}
    IN  IF unconfigured THEN pure.client = None
        ELSE config.apiProvider \in APIProvider =>
               \E client \in pure.client : client.type = config.apiProvider

\* C30 amended: the same, an azure-openai endpoint that is the single
\* character "/" counting as no endpoint.
C30_ClientUnlessUnusable ==
  pure.stage = "created" =>
    LET config == pure.config
        unconfigured ==
          \/ KeyBlank(config)
          \/ /\ config.apiProvider = "azure-openai"
             /\ config.azureEndpoint \in {None, Some(<<>>), Some(<<"/">>)}
    IN  IF unconfigured THEN pure.client = None
        ELSE config.apiProvider \in APIProvider =>
               \E client \in pure.client : client.type = config.apiProvider

\* a blank key gave no client although provider and endpoint were configured
C30_Witness ==
  /\ pure.stage = "created"
  /\ pure.config.apiKey = Some(<<" "," ">>)
  /\ pure.config.apiProvider = "azure-openai"
  /\ pure.config.azureEndpoint = Some(<<"h","t","t","p","s",":","/","/","r","e","s",".","o","p","e","n","a","i",".","a","z","u","r","e",".","c","o","m","/">>)
  /\ pure.client = None

\* the invocation in slot c reads the snapshot in this step: it leaves the
\* await before getModelsFromModelsDev or enrichWithModelsDev
ReadsSnapshot(c) ==
  /\ calls[c].pc \in {"nokey", "fallback", "enrich"}
  /\ calls'[c].pc # calls[c].pc
  /\ calls'[c].seq = calls[c].seq

\* data and entity tag of the snapshot are those of one 200 response, or the
\* initial ones
OfOneResponse(snapshot) ==
  \/ snapshot.data = None /\ snapshot.etag = None
  \/ \E resp \in CatalogResponses :
       resp.status = 200 /\ snapshot.data = resp.data /\ snapshot.etag = resp.etag

\* C31: an invocation reads the snapshot only once the ensureModelsDevData
\* promise it started has settled, and the snapshot never pairs the data of
\* one response with the entity tag of another, however invocations overlap.
C31_ReadAfterEnsure ==
  [][/\ \A c \in CallIds : ReadsSnapshot(c) => calls[c].ensure = "resolved"
     /\ OfOneResponse(modelsDevCache)
     /\ OfOneResponse(modelsDevCache')]_vars

\* two overlapping invocations each had their catalog request answered with
\* a body, the later answer carrying no entity tag, and one of them took its
\* list from the catalog
C31_Witness ==
  \E c, d \in CallIds :
    /\ c # d /\ Returned(c) /\ Returned(d)
    /\ calls[c].seq \in calls[d].during
    /\ calls[c].catalogStatus = Some(200) /\ calls[d].catalogStatus = Some(200)
    /\ calls[d].source = "models.dev"
    /\ modelsDevCache.data = Some(CatalogB) /\ modelsDevCache.etag = None

\* the snapshot is what a 200 response with these data and ETag header makes
\* of it at the given time
ReplacedBy(snapshot, resp, time) ==
  /\ snapshot.data = resp.data
  /\ snapshot.timestamp = time
  /\ snapshot.etag = IF resp.etag = Some("") THEN None ELSE resp.etag

\* C32: the step that handles a 200 response sets data, timestamp and entity
\* tag of the snapshot from that response and the current time (no entity tag
\* when the response has none); a catalog request carries If-None-Match, with
\* the snapshot's entity tag, exactly when that tag is not null.
C32_ReplacedTogether ==
  [][\A c \in CallIds :
       /\ CatalogAnswered(c, 200) =>
            \E resp \in RefreshResponses :
              resp.status = 200 /\ ReplacedBy(modelsDevCache', resp, now')
       /\ (Starts(c) /\ calls'[c].ensure = "pending") =>
            /\ calls'[c].ifNoneMatch # None <=> modelsDevCache.etag # None
            /\ calls'[c].ifNoneMatch = modelsDevCache.etag]_vars

\* a snapshot with an entity tag was replaced by a response without one, and
\* the refresh after it was sent without If-None-Match
C32_Witness ==
  \E c \in CallIds :
    /\ calls[c].seq = 3
    /\ calls[c].ensure = "pending"
    /\ calls[c].ifNoneMatch = None
    /\ modelsDevCache.data = Some(CatalogB)
    /\ modelsDevCache.etag = None
    /\ stampedBy = Some(200)
    /\ ticks = 2

\* the key of the invocation in slot c had, when the invocation was made, a
\* cache entry CACHE_TTL old or older
FoundExpired(c) ==
  \E timestamp \in calls[c].entryAtStart :
    calls[c].startedAt - timestamp >= CACHE_TTL

\* the ids a list of the catalog tier or the static tier can hold for the
\* provider: those of its namespace in the snapshot and of its static list
TierIds(provider) ==
  Ids(getStaticFallbackModels(provider)) \cup
  (IF HasNamespace(modelsDevCache.data, provider)
   THEN Ids(NamespaceModels(modelsDevCache.data, provider)) ELSE {})

\* C33: an invocation with a key that finds for it only an entry CACHE_TTL
\* old or older does not return it but calls the provider fetcher; when that
\* fails, the result carries no cachedAt, its source is "models.dev" or
\* "static" as the snapshot has eligible models or not, and its models are
\* of that tier.
C33_ExpiredNeverReturned ==
  [][\A c \in CallIds :
       /\ (Starts(c) /\ FoundExpired(c)' /\ ~TrimIsEmpty(calls'[c].apiKey)) =>
            /\ calls'[c].pc = "api"
            /\ calls'[c].result = None
       /\ (Returned(c) /\ FoundExpired(c) /\ calls[c].apiError # None)' =>
            /\ Result(c)'.cachedAt = None
            /\ Result(c)'.success
            /\ Result(c)'.source =
                 IF EligibleEntries(modelsDevCache'.data, calls'[c].provider) # {}
                 THEN "models.dev" ELSE "static"
            /\ Ids(Result(c)'.models) \subseteq TierIds(calls[c].provider)']_vars

\* an entry that came from the provider was exactly CACHE_TTL old when the
\* next invocation for its key was made; the provider fetch of that
\* invocation failed and it returned the static list
C33_Witness ==
  \E c \in CallIds :
    /\ Returned(c) /\ calls[c].apiError # None
    /\ ~calls[c].forceRefresh
    /\ calls[c].entryAtStart # None
    /\ calls[c].startedAt - Get(calls[c].entryAtStart) = CACHE_TTL
    /\ calls[c].providerRequests = 1
    /\ Result(c).source = "static"
    /\ modelsDevCache.data = None

\* the invocation in slot c returns in this step
ReturnsNow(c) == calls[c].pc \notin {"idle", "done"} /\ calls'[c].pc = "done"

\* C34: the timestamp of the entry of a cache key never decreases from one
\* write to the next, in whatever order overlapping invocations for the key
\* return; and an entry is written whole, by an invocation that returns in
\* that step, with the models and source it returns and the time of the step.
C34_TimestampMonotone ==
  [][\A k \in DOMAIN cache' :
       /\ k \in DOMAIN cache => cache'[k].timestamp >= cache[k].timestamp
       /\ EntryChanges(k) =>
            \E c \in CallIds :
              /\ ReturnsNow(c)
              /\ k = CacheKey(calls'[c].provider, calls'[c].apiKey)
              /\ cache'[k] = [models |-> Result(c)'.models,
                              timestamp |-> now',
                              source |-> Result(c)'.source]]_vars

\* of two overlapping invocations for one key the one made first returned
\* last: the entry is the one it wrote, later than the other's
C34_Witness ==
  \E c, d \in CallIds :
    /\ Returned(c) /\ Returned(d)
    /\ calls[c].seq \in calls[d].during
    /\ KeyOf(c) = KeyOf(d)
    /\ Result(c).cachedAt = None /\ Result(d).cachedAt = None
    /\ Result(c).source = "api" /\ Result(d).source = "static"
    /\ cache[KeyOf(c)].source = "api"
    /\ cache[KeyOf(c)].timestamp = now
    /\ now > calls[d].startedAt

\* C35: an invocation with forceRefresh set and a key that is not blank
\* returns no cache entry, however fresh, but calls the provider fetcher; in
\* the step in which it returns, the entry of its key becomes the models and
\* source it returns, stamped with the time of the step.
C35_ForcedRefreshReplaces ==
  [][\A c \in CallIds :
       /\ (Starts(c) /\ calls'[c].forceRefresh /\ ~TrimIsEmpty(calls'[c].apiKey)) =>
            /\ calls'[c].pc = "api"
            /\ calls'[c].result = None
       /\ (ReturnsNow(c) /\ calls[c].forceRefresh) =>
            /\ Result(c)'.cachedAt = None
            /\ CacheKey(calls'[c].provider, calls'[c].apiKey) \in DOMAIN cache'
            /\ cache'[CacheKey(calls'[c].provider, calls'[c].apiKey)] =
                 [models |-> Result(c)'.models,
                  timestamp |-> now',
                  source |-> Result(c)'.source]]_vars

\* a forced refresh made while the entry of its key was fresh asked the
\* provider, failed, and replaced the entry by the static list
C35_Witness ==
  \E c \in CallIds :
    /\ Returned(c) /\ calls[c].forceRefresh
    /\ calls[c].entryAtStart # None
    /\ calls[c].startedAt - Get(calls[c].entryAtStart) < CACHE_TTL
    /\ calls[c].providerRequests = 1
    /\ Result(c).source = "static"
    /\ KeyOf(c) \in DOMAIN cache
    /\ cache[KeyOf(c)].source = "static"
    /\ cache[KeyOf(c)].timestamp > Get(calls[c].entryAtStart)

\* the cache keys deleted in this step
Deleted == DOMAIN cache \ DOMAIN cache'

\* the cache keys whose entry was written by an invocation for the provider
EntriesOf(provider) == {k \in DOMAIN cache : written[k].provider = provider}

\* C36: clearCache(provider) deletes the entries written for that provider,
\* all of them and no other, and clearCache() deletes every entry; either
\* leaves the remaining entries and the catalog snapshot as they were.
C36_ClearsOwnProvider ==
  [][Deleted # {} =>
       /\ pure'.stage = "cleared"
       /\ Deleted = (IF pure'.provider = None THEN DOMAIN cache
                     ELSE EntriesOf(Get(pure'.provider)))
       /\ \A k \in DOMAIN cache' : cache'[k] = cache[k]
       /\ modelsDevCache' = modelsDevCache]_vars

\* clearCache("openai") left the entries of azure-openai and openrouter and
\* a loaded snapshot
C36_Witness ==
  /\ pure.stage = "cleared"
  /\ pure.provider = Some("openai")
  /\ DOMAIN cache = {CacheKey("azure-openai", ClearKey), CacheKey("openrouter", ClearKey)}
  /\ modelsDevCache.data # None
  /\ started = MaxClearCalls

\* the invocation that starts in slot c in this step, made without
\* forceRefresh, follows within CACHE_TTL an invocation for the same cache
\* key whose provider fetch had failed
FollowsFailed(c) ==
  /\ Starts(c) /\ ~calls'[c].forceRefresh
  /\ Returned(c) /\ calls[c].apiError # None
  /\ CacheKey(calls'[c].provider, calls'[c].apiKey) = KeyOf(c)
  /\ now - Get(calls[c].returnedAt) < CACHE_TTL

\* the invocation that starts in slot c in this step returns at once what
\* the invocation before it returned, without a provider request
ServedAgain(c) ==
  /\ calls'[c].pc = "done"
  /\ Result(c)'.success
  /\ Result(c)'.models = Result(c).models
  /\ Result(c)'.source = Result(c).source
  /\ Result(c)'.source \in {"models.dev", "static"}
  /\ calls'[c].providerRequests = 0

\* an invocation whose provider fetch failed writes, when it returns, an
\* entry with the source "models.dev" or "static" it returns
DegradedEntryWritten(c) ==
  (ReturnsNow(c) /\ calls'[c].apiError # None) =>
    /\ CacheKey(calls'[c].provider, calls'[c].apiKey) \in DOMAIN cache'
    /\ cache'[CacheKey(calls'[c].provider, calls'[c].apiKey)].source = Result(c)'.source
    /\ Result(c)'.source \in {"models.dev", "static"}

\* C37 as stated: an invocation whose provider fetch failed writes an entry
\* with source "models.dev" or "static", and every invocation for the key
\* that follows within CACHE_TTL without forceRefresh returns that result,
\* with success true and without a provider request.
C37_DegradedResultServedAgain ==
  [][\A c \in CallIds :
       /\ DegradedEntryWritten(c)
       /\ FollowsFailed(c) => ServedAgain(c)]_vars

\* C37 amended: the same, for the following invocations made while the entry
\* has not been deleted by clearCache.
C37_DegradedResultServedUnlessCleared ==
  [][\A c \in CallIds :
       /\ DegradedEntryWritten(c)
       /\ (FollowsFailed(c) /\ KeyOf(c) \in DOMAIN cache) => ServedAgain(c)]_vars

\* the catalog list written after a failed provider fetch was served again
\* one millisecond before it expired
C37_Witness ==
  \E c \in CallIds :
    /\ Returned(c) /\ calls[c].seq = 2 /\ ~calls[c].forceRefresh
    /\ Result(c).cachedAt # None
    /\ calls[c].startedAt - Get(Result(c).cachedAt) = CACHE_TTL - 1
    /\ Result(c).source = "models.dev"
    /\ Result(c).success
    /\ calls[c].providerRequests = 0
    /\ calls[c].apiError = None

\* the invocation that starts in slot c in this step is for azure-openai and
\* follows, within CACHE_TTL, one for the same key that wrote the entry and
\* was made with another endpoint or apiVersion
FollowsOtherEndpoint(c) ==
  /\ Starts(c)
  /\ Returned(c) /\ Result(c).cachedAt = None /\ ~TrimIsEmpty(calls[c].apiKey)
  /\ calls[c].provider = "azure-openai" /\ calls'[c].provider = "azure-openai"
  /\ calls'[c].apiKey = calls[c].apiKey
  /\ calls'[c].endpoint # calls[c].endpoint \/ calls'[c].apiVersion # calls[c].apiVersion
  /\ now - Get(calls[c].returnedAt) < CACHE_TTL

\* the invocation that starts in slot c in this step returns at once the
\* entry the invocation before it wrote, without any request
ServedFromEarlier(c) ==
  /\ calls'[c].pc = "done"
  /\ Result(c)'.models = Result(c).models
  /\ Result(c)'.source = Result(c).source
  /\ Result(c)'.cachedAt = calls[c].returnedAt
  /\ calls'[c].providerRequests = 0
  /\ calls'[c].catalogRequests = 0

\* C38 as stated: an azure-openai invocation made within CACHE_TTL of one
\* with the same key and another endpoint or apiVersion returns the entry
\* that one wrote and sends no request.
C38_EndpointNotInKey ==
  [][\A c \in CallIds : FollowsOtherEndpoint(c) => ServedFromEarlier(c)]_vars

\* C38 amended: the same, for an invocation made without forceRefresh and
\* with no clearCache since the entry was written.
C38_EndpointNotInKeyUnlessForced ==
  [][\A c \in CallIds :
       (FollowsOtherEndpoint(c) /\ ~calls'[c].forceRefresh /\ pure.stage # "cleared")
         => ServedFromEarlier(c)]_vars

\* the list fetched from one Azure resource was returned to an invocation
\* that named another resource and another apiVersion
C38_Witness ==
  \E c \in CallIds :
    /\ Returned(c) /\ calls[c].seq = 2
    /\ calls[c].provider = "azure-openai"
    /\ calls[c].endpoint = Some("https://other.openai.azure.com")
    /\ calls[c].apiVersion = Some("2024-06-01")
    /\ Result(c).cachedAt # None
    /\ Result(c).source = "api"
    /\ calls[c].providerRequests = 0
    /\ pure.stage # "cleared"

\* C39: every id that MODEL_CATEGORIES offers for a provider and category is
\* returned unchanged by sanitizeModelSelection for that provider and
\* category when no dynamic allow-list is given.
C39_OfferedIdAccepted ==
  (/\ pure.stage = "once"
   /\ pure.dynamicAllowList = None
   /\ pure.model \in OfferedIds(pure.category, pure.provider)) =>
    pure.once = pure.model

\* no request of the dialog is in flight and no fetch is scheduled
DialogSettled ==
  /\ dialog.open /\ ~dialog.configPending
  /\ dialog.timers = <<>> /\ dialog.inflight = {}
  /\ dialog.issued > 0

\* C40: once every fetch of the dialog has been answered, the models shown
\* are models of the selected provider and came, like the source shown, from
\* a request made for it.
C40_ListOfSelectedProvider ==
  DialogSettled =>
    /\ \A i \in 1..Len(dialog.fetchedModels) :
         dialog.fetchedModels[i].provider = dialog.apiProvider
    /\ dialog.listFor \subseteq {dialog.apiProvider}
    /\ dialog.sourceFor \subseteq {dialog.apiProvider}

====
